---- MODULE Spec2Model ----
(***************************************************************************)
(* Model of the Mastermind game server: the scoring engine (app/engine.py), *)
(* the in-memory GameStore (app/store.py) and the routes that wrap it       *)
(* (app/main.py).                                                           *)
(*                                                                          *)
(* Spec     : the GameStore API called sequentially, one action per method. *)
(* SpecConc : the same methods and the routes run by concurrent request     *)
(*            threads, one step per read or write of shared state.          *)
(*                                                                          *)
(* Conventions: Python None for an Optional value is the empty set and a    *)
(* present value v is {v}; list indices stay 0-based where the code stores  *)
(* them (revealed_positions); time() is a per-session logical clock.        *)
(***************************************************************************)
EXTENDS Integers, Sequences, FiniteSets, TLC

VARIABLES
    games,          \* GameStore._games: session id -> Game
    stats,          \* GameStore._stats
    lock,           \* GameStore._lock: the thread holding it, or NoThread
    th,             \* each request thread: its position and its locals
    last,           \* the store call that returned last, with its result
    outcomeCalls,   \* per session, the runs of _update_stats_on_end so far
    acceptedCalls,  \* per session, the guess calls that passed the guards
    db,             \* the database of DBGameStore: the committed rows
    orm,            \* the SQLAlchemy Session of each request
    dbLast          \* the DBGameStore call that returned last, with its result

vars == <<games, stats, lock, th, last, outcomeCalls, acceptedCalls,
          db, orm, dbLast>>

\* ---------------------------------------------------------------- bounds
\* The largest attempts value a session is created with.
MaxAttempts == 2

\* ------------------------------------------------------------- app/types
MaxDigit == 7
Difficulties == {"easy", "medium", "hard"}
Terminal == {"won", "lost"}

\* Inputs of the model: the secrets handed to create and the guesses
\* submitted (winning, non-winning and wrong-length ones for each secret).
Secrets == {<<1, 2>>, <<2, 1>>}
Guesses == {<<1, 2>>, <<2, 1>>, <<0, 1, 2>>}
\* The create calls made: the secret and the difficulty of each.
CreateArgs ==
    {<<(<<1, 2>>), "easy">>, <<(<<2, 1>>), "medium">>, <<(<<1, 2>>), "hard">>}
\* The identifiers uuid4 hands out, in the order it does.
GameIds == {"id1", "id2"}
\* An identifier no session ever has.
UnknownId == "unknown"

None == {}
Some(v) == {v}

\* ------------------------------------------------------------ app/engine
\* Mutant: the larger of the two counts is added for each digit.
RECURSIVE SumOverDigits_Larger(_, _, _)
SumOverDigits_Larger(secret_counts, guess_counts, digit) ==
    IF digit > MaxDigit THEN 0
    ELSE (IF secret_counts[digit] < guess_counts[digit]
             THEN guess_counts[digit]
             ELSE secret_counts[digit])
         + SumOverDigits_Larger(secret_counts, guess_counts, digit + 1)

RECURSIVE SumOverDigits(_, _, _)
SumOverDigits(secret_counts, guess_counts, digit) ==
    IF digit > MaxDigit THEN 0
    ELSE (IF secret_counts[digit] < guess_counts[digit]
             THEN secret_counts[digit]
             ELSE guess_counts[digit])
         + SumOverDigits(secret_counts, guess_counts, digit + 1)

\* Mutant: a digit is counted once however often it occurs.
DigitCounts_Presence(code) ==
    [d \in 0..MaxDigit |-> IF \E i \in 1..Len(code) : code[i] = d THEN 1 ELSE 0]

\* The counts list filled by the two loops: digits outside 0..7 are ignored.
DigitCounts(code) ==
    [d \in 0..MaxDigit |-> Cardinality({i \in 1..Len(code) : code[i] = d})]

score_guess_raises(secret, guess) ==
    Len(secret) = 0 \/ Len(guess) # Len(secret)

\* Mutant: digits in the right position are not counted in correct_numbers.
score_guess_ExcludesPositions(secret, guess) ==
    LET n == Len(secret)
        correct_positions == Cardinality({i \in 1..n : secret[i] = guess[i]})
        correct_numbers == SumOverDigits(DigitCounts(secret), DigitCounts(guess), 0)
    IN  <<correct_numbers - correct_positions, correct_positions>>

\* (correct_numbers, correct_positions), defined when score_guess does not raise.
score_guess(secret, guess) ==
    LET n == Len(secret)
        correct_positions == Cardinality({i \in 1..n : secret[i] = guess[i]})
        correct_numbers == SumOverDigits(DigitCounts(secret), DigitCounts(guess), 0)
    IN  <<correct_numbers, correct_positions>>

\* Mutant: the positions both codes have are compared, the lengths are not.
is_win_Prefix(secret, attempt) ==
    LET n == IF Len(secret) < Len(attempt) THEN Len(secret) ELSE Len(attempt)
    IN  \A i \in 1..n : secret[i] = attempt[i]

is_win(secret, guess) ==
    LET n == Len(secret)
    IN  IF n = 0 \/ Len(guess) # n THEN FALSE
        ELSE \A i \in 1..n : secret[i] = guess[i]

\* ------------------------------------------------------------- app/store
Stats ==
    [games_started |-> 0, games_won |-> 0, games_lost |-> 0,
     current_streak |-> 0, best_streak |-> 0,
     total_guesses_in_wins |-> 0, fastest_win_attempts |-> None,
     easy_started |-> 0, medium_started |-> 0, hard_started |-> 0,
     easy_won |-> 0, medium_won |-> 0, hard_won |-> 0]

Game(secret, attempts, difficulty) ==
    [secret |-> secret, attempts_left |-> attempts, status |-> "in_progress",
     history |-> <<>>, updated_at |-> 0, initial_attempts |-> attempts,
     difficulty |-> difficulty, hint_used |-> FALSE,
     revealed_positions |-> <<>>]

\* time() read for a session: its logical clock, one past its last update.
Time(game) == game.updated_at + 1

Message(correct_numbers, correct_positions) ==
    IF correct_numbers = 0 /\ correct_positions = 0
    THEN <<"all incorrect">>
    ELSE <<correct_numbers, "correct number(s) and", correct_positions, "correct location(s)">>

GuessEntry(game, attempt) ==
    LET result == score_guess(game.secret, attempt)
    IN  [guess |-> attempt, correct_numbers |-> result[1],
         correct_positions |-> result[2],
         message |-> Message(result[1], result[2]),
         timestamp |-> Time(game)]

\* The new uuid4: an identifier no session of the store has.
NewId == CHOOSE id \in GameIds \cup {UnknownId} :
             id \in GameIds \ DOMAIN games \/ (DOMAIN games = GameIds /\ id = UnknownId)

NoThread == "none"

StartedCounter(difficulty) ==
    IF difficulty = "easy" THEN "easy_started"
    ELSE IF difficulty = "hard" THEN "hard_started"
    ELSE "medium_started"

WonCounter(difficulty) ==
    IF difficulty = "easy" THEN "easy_won"
    ELSE IF difficulty = "hard" THEN "hard_won"
    ELSE "medium_won"

\* create, the writes under the lock
InsertGame(gs, new_id, game) ==
    [g \in DOMAIN gs \cup {new_id} |-> IF g = new_id THEN game ELSE gs[g]]

\* Mutant: a created session is counted twice.
IncGamesStarted_Twice(st) == [st EXCEPT !.games_started = @ + 2]

IncGamesStarted(st) == [st EXCEPT !.games_started = @ + 1]

\* Mutant: a hard session is counted as a medium one too.
IncDifficultyStarted_HardTwice(st, difficulty) ==
    IF difficulty = "hard"
    THEN [st EXCEPT !.hard_started = @ + 1, !.medium_started = @ + 1]
    ELSE [st EXCEPT ![StartedCounter(difficulty)] = @ + 1]

IncDifficultyStarted(st, difficulty) ==
    [st EXCEPT ![StartedCounter(difficulty)] = @ + 1]

\* Mutant: a finished session still takes guesses.
GuessBranch_AcceptsFinished(gs, game_id, attempt) ==
    IF game_id \notin DOMAIN gs THEN "None"
    ELSE IF Len(gs[game_id].secret) # Len(attempt) THEN "ValueError"
    ELSE IF score_guess_raises(gs[game_id].secret, attempt) THEN "ValueError"
    ELSE "accepted"

\* Mutant: the length guard placed before the finished-session return.
GuessBranch_LengthFirst(gs, game_id, attempt) ==
    IF game_id \notin DOMAIN gs THEN "None"
    ELSE IF Len(gs[game_id].secret) # Len(attempt) THEN "ValueError"
    ELSE IF gs[game_id].status # "in_progress" THEN "finished"
    ELSE "accepted"

\* Mutant: no length guard, and the engine pads instead of raising.
GuessBranch_NoLengthGuard(gs, game_id, attempt) ==
    IF game_id \notin DOMAIN gs THEN "None"
    ELSE IF gs[game_id].status # "in_progress" THEN "finished"
    ELSE "accepted"

\* guess, the branch taken after the lookup
GuessBranch(gs, game_id, attempt) ==
    IF game_id \notin DOMAIN gs THEN "None"
    ELSE IF gs[game_id].status # "in_progress" THEN "finished"
    ELSE IF Len(gs[game_id].secret) # Len(attempt) THEN "ValueError"
    ELSE IF score_guess_raises(gs[game_id].secret, attempt) THEN "ValueError"
    ELSE "accepted"

\* Mutant: the new entry is put in front of the history.
AppendHistory_Prepend(game, attempt) ==
    [game EXCEPT !.history = <<GuessEntry(game, attempt)>> \o @]

\* Mutant: the history keeps only the latest entry.
AppendHistory_Replace(game, attempt) ==
    [game EXCEPT !.history = <<GuessEntry(game, attempt)>>]

\* guess, the writes of an accepted guess in the order of the code
AppendHistory(game, attempt) ==
    [game EXCEPT !.history = Append(@, GuessEntry(game, attempt))]

\* Mutant: the decrement also lowers the attempts the session started with.
DecrementAttempts_Initial(game) ==
    [game EXCEPT !.attempts_left = @ - 1, !.initial_attempts = @ - 1]

DecrementAttempts(game) == [game EXCEPT !.attempts_left = @ - 1]

\* Mutant: the attempts test made before the win test.
UpdateStatus_LostFirst(game, attempt) ==
    [game EXCEPT !.status = IF game.attempts_left <= 0 THEN "lost"
                            ELSE IF is_win(game.secret, attempt) THEN "won"
                            ELSE @,
                 !.updated_at = Time(game)]

\* Mutant: lost only once attempts_left is below zero.
UpdateStatus_OffByOne(game, attempt) ==
    [game EXCEPT !.status = IF is_win(game.secret, attempt) THEN "won"
                            ELSE IF game.attempts_left < 0 THEN "lost"
                            ELSE @,
                 !.updated_at = Time(game)]

UpdateStatus(game, attempt) ==
    [game EXCEPT !.status = IF is_win(game.secret, attempt) THEN "won"
                            ELSE IF game.attempts_left <= 0 THEN "lost"
                            ELSE @,
                 !.updated_at = Time(game)]

\* Mutant: only a loss counts as the end of a session.
TransitionDetected_LostOnly(old_status, game) ==
    old_status = "in_progress" /\ game.status = "lost"

TransitionDetected(old_status, game) ==
    old_status = "in_progress" /\ game.status \in Terminal

\* Mutant: a win leaves best_streak as it was.
update_stats_on_end_BestStreakStale(st, game, won) ==
    IF won
    THEN LET guesses_used == game.initial_attempts - game.attempts_left
             streak == st.current_streak + 1
         IN  [st EXCEPT !.games_won = @ + 1,
                        ![WonCounter(game.difficulty)] = @ + 1,
                        !.current_streak = streak,
                        !.total_guesses_in_wins = @ + guesses_used,
                        !.fastest_win_attempts =
                            IF @ = None \/ (\E f \in @ : guesses_used < f)
                            THEN Some(guesses_used) ELSE @]
    ELSE [st EXCEPT !.games_lost = @ + 1, !.current_streak = 0]

\* Mutant: a loss leaves the current streak standing.
update_stats_on_end_LossKeepsStreak(st, game, won) ==
    IF won
    THEN LET guesses_used == game.initial_attempts - game.attempts_left
             streak == st.current_streak + 1
         IN  [st EXCEPT !.games_won = @ + 1,
                        ![WonCounter(game.difficulty)] = @ + 1,
                        !.current_streak = streak,
                        !.best_streak = IF streak > @ THEN streak ELSE @,
                        !.total_guesses_in_wins = @ + guesses_used,
                        !.fastest_win_attempts =
                            IF @ = None \/ (\E f \in @ : guesses_used < f)
                            THEN Some(guesses_used) ELSE @]
    ELSE [st EXCEPT !.games_lost = @ + 1]

update_stats_on_end(st, game, won) ==
    IF won
    THEN LET guesses_used == game.initial_attempts - game.attempts_left
             streak == st.current_streak + 1
         IN  [st EXCEPT !.games_won = @ + 1,
                        ![WonCounter(game.difficulty)] = @ + 1,
                        !.current_streak = streak,
                        !.best_streak = IF streak > @ THEN streak ELSE @,
                        !.total_guesses_in_wins = @ + guesses_used,
                        !.fastest_win_attempts =
                            IF @ = None \/ (\E f \in @ : guesses_used < f)
                            THEN Some(guesses_used) ELSE @]
    ELSE [st EXCEPT !.games_lost = @ + 1, !.current_streak = 0]

\* The session after an accepted guess.
GameAfterGuess(game, attempt) ==
    UpdateStatus(DecrementAttempts(AppendHistory(game, attempt)), attempt)

\* Mutant: give_hint without the everything-revealed guard.
HintBranch_NoRevealedGuard(gs, game_id) ==
    IF game_id \notin DOMAIN gs THEN "not_found"
    ELSE IF gs[game_id].status # "in_progress" THEN "finished"
    ELSE IF gs[game_id].hint_used THEN "already_used"
    ELSE "ok"

\* Mutant: the used-hint test made before the finished-session test.
HintBranch_UsedFirst(gs, game_id) ==
    IF game_id \notin DOMAIN gs THEN "not_found"
    ELSE IF gs[game_id].hint_used THEN "already_used"
    ELSE IF gs[game_id].status # "in_progress" THEN "finished"
    ELSE IF Len(gs[game_id].revealed_positions) >= Len(gs[game_id].secret)
         THEN "already_used"
    ELSE "ok"

\* give_hint, the branch taken after the lookup
HintBranch(gs, game_id) ==
    IF game_id \notin DOMAIN gs THEN "not_found"
    ELSE IF gs[game_id].status # "in_progress" THEN "finished"
    ELSE IF gs[game_id].hint_used THEN "already_used"
    ELSE IF Len(gs[game_id].revealed_positions) >= Len(gs[game_id].secret)
         THEN "already_used"
    ELSE "ok"

\* The inner scan of give_hint's loop: index is already in revealed_positions.
AlreadyRevealed(game, index) ==
    \E j \in 1..Len(game.revealed_positions) : game.revealed_positions[j] = index

\* The values randbelow(total) can return.
RandBelow(total) == 0..(total - 1)

\* Mutant: the hint costs an attempt.
MarkHint_CostsAttempt(game, index) ==
    [game EXCEPT !.hint_used = TRUE,
                 !.revealed_positions = Append(@, index),
                 !.attempts_left = @ - 1,
                 !.updated_at = Time(game)]

MarkHint(game, index) ==
    [game EXCEPT !.hint_used = TRUE,
                 !.revealed_positions = Append(@, index),
                 !.updated_at = Time(game)]

\* Mutant: the digit is taken one position further on.
HintData_NextDigit(game, index) ==
    <<index, game.secret[((index + 1) % Len(game.secret)) + 1]>>

\* The (index, digit) pair give_hint returns.
HintData(game, index) == <<index, game.secret[index + 1]>>

\* ---------------------------------------------------- the GameStore API
\* One action per method, the whole body under the lock.
create(secret, attempts, difficulty) ==
    /\ NewId \in GameIds
    /\ games' = InsertGame(games, NewId, Game(secret, attempts, difficulty))
    /\ stats' = IncDifficultyStarted(IncGamesStarted(stats), difficulty)
    /\ UNCHANGED <<outcomeCalls, acceptedCalls, lock, th>>

get(game_id) ==
    UNCHANGED <<games, stats, outcomeCalls, acceptedCalls, lock, th>>

guess(game_id, attempt) ==
    /\ IF GuessBranch(games, game_id, attempt) = "accepted"
       THEN LET game == GameAfterGuess(games[game_id], attempt)
                ended == TransitionDetected(games[game_id].status, game)
            IN  /\ games' = [games EXCEPT ![game_id] = game]
                /\ stats' = IF ended
                            THEN update_stats_on_end(stats, game, game.status = "won")
                            ELSE stats
                /\ outcomeCalls' = IF ended
                                   THEN [outcomeCalls EXCEPT ![game_id] = @ + 1]
                                   ELSE outcomeCalls
                /\ acceptedCalls' = [acceptedCalls EXCEPT ![game_id] = @ + 1]
       ELSE UNCHANGED <<games, stats, outcomeCalls, acceptedCalls>>
    /\ UNCHANGED <<lock, th>>

\* Mutant: a refused hint still advances the session's updated_at.
give_hint_TouchesOnRefusal(game_id) ==
    /\ IF HintBranch(games, game_id) = "ok"
       THEN \E index \in RandBelow(Len(games[game_id].secret)) :
                /\ ~AlreadyRevealed(games[game_id], index)
                /\ games' = [games EXCEPT ![game_id] = MarkHint(@, index)]
       ELSE IF game_id \in DOMAIN games
       THEN games' = [games EXCEPT ![game_id].updated_at = Time(games[game_id])]
       ELSE UNCHANGED games
    /\ UNCHANGED <<stats, outcomeCalls, acceptedCalls, lock, th>>

give_hint(game_id) ==
    /\ IF HintBranch(games, game_id) = "ok"
       THEN \E index \in RandBelow(Len(games[game_id].secret)) :
                /\ ~AlreadyRevealed(games[game_id], index)
                /\ games' = [games EXCEPT ![game_id] = MarkHint(@, index)]
       ELSE UNCHANGED games
    /\ UNCHANGED <<stats, outcomeCalls, acceptedCalls, lock, th>>

get_stats ==
    UNCHANGED <<games, stats, outcomeCalls, acceptedCalls, lock, th>>

\* Mutant: a reset that keeps the best streak.
reset_stats_KeepsBestStreak ==
    /\ stats' = [Stats EXCEPT !.best_streak = stats.best_streak]
    /\ UNCHANGED <<games, outcomeCalls, acceptedCalls, lock, th>>

reset_stats ==
    /\ stats' = Stats
    /\ UNCHANGED <<games, outcomeCalls, acceptedCalls, lock, th>>

\* ------------------------------------------------- what each call returns
\* The call that has just returned: method, arguments, result.
Call(op, game_id, attempt, result, data) ==
    [op |-> op, game_id |-> game_id, attempt |-> attempt,
     result |-> result, data |-> data]

NoCall == Call("none", UnknownId, <<>>, "None", <<>>)

create_returns == Call("create", NewId, <<>>, "game", <<>>)

get_returns(game_id) ==
    Call("get", game_id, <<>>,
         IF game_id \in DOMAIN games THEN "game" ELSE "None", <<>>)

\* guess returns the session (accepted, or already finished), None, or raises.
guess_returns(game_id, attempt) ==
    LET branch == GuessBranch(games, game_id, attempt)
    IN  Call("guess", game_id, attempt,
             IF branch \in {"accepted", "finished"} THEN "game" ELSE branch, <<>>)

\* give_hint returns (status, data); data is (index, digit) of the index
\* just appended to revealed_positions.
give_hint_returns(game_id) ==
    LET branch == HintBranch(games, game_id)
    IN  Call("give_hint", game_id, <<>>, branch,
             IF branch = "ok"
             THEN LET revealed == games'[game_id].revealed_positions
                  IN  HintData(games[game_id], revealed[Len(revealed)])
             ELSE <<>>)

get_stats_returns == Call("get_stats", UnknownId, <<>>, "stats", <<>>)

reset_stats_returns == Call("reset_stats", UnknownId, <<>>, "None", <<>>)

\* -------------------------------------------------------------- app/main
\* GuessResponse: feedback, secret and note are Optional.
GuessResponse(attempts_left, status, feedback, secret, note) ==
    [attempts_left |-> attempts_left, status |-> status,
     feedback |-> feedback, secret |-> secret, note |-> note]

Note(status) == <<"Game", status, "No more guesses allowed.">>

\* The response of submit_guess for a session read as finished: the last
\* feedback if any, the secret and the note.
FinishedResponse(game) ==
    GuessResponse(game.attempts_left, game.status,
                  IF Len(game.history) > 0
                  THEN Some(game.history[Len(game.history)]) ELSE None,
                  Some(game.secret), Some(Note(game.status)))

\* The response of submit_guess for a session read as still in progress.
ProgressResponse(attempts_left, status, feedback) ==
    GuessResponse(attempts_left, status, Some(feedback), None, None)

\* The path submit_guess takes up to its call of store.guess.
RouteBranch(gs, game_id, payload) ==
    IF game_id \notin DOMAIN gs THEN "404"
    ELSE IF gs[game_id].status # "in_progress" THEN "finished"
    ELSE IF Len(payload) # Len(gs[game_id].secret) THEN "400"
    ELSE "guess"

\* submit_guess with no other request in between: the store call it makes.
submit_guess(game_id, payload) ==
    IF RouteBranch(games, game_id, payload) = "guess"
    THEN guess(game_id, payload)
    ELSE UNCHANGED <<games, stats, outcomeCalls, acceptedCalls, lock, th>>

\* The HTTP status and body of that submit_guess.
submit_guess_returns(game_id, payload) ==
    LET branch == RouteBranch(games, game_id, payload)
    IN  IF branch \in {"404", "400"}
        THEN Call("submit_guess", game_id, payload, branch, <<>>)
        ELSE IF branch = "finished"
        THEN Call("submit_guess", game_id, payload, "200",
                  <<FinishedResponse(games[game_id])>>)
        ELSE IF GuessBranch(games, game_id, payload) = "ValueError"
        THEN Call("submit_guess", game_id, payload, "400", <<>>)
        ELSE LET game == games'[game_id]
             IN  IF Len(game.history) = 0
                 THEN Call("submit_guess", game_id, payload, "500", <<>>)
                 ELSE IF game.status # "in_progress"
                 THEN Call("submit_guess", game_id, payload, "200",
                           <<FinishedResponse(game)>>)
                 ELSE Call("submit_guess", game_id, payload, "200",
                           <<ProgressResponse(game.attempts_left, game.status,
                                              game.history[Len(game.history)])>>)

Threads == {"t1", "t2"}

\* A request thread: where it is in its handler and the handler's locals.
Frame(pc, op, game_id, payload) ==
    [pc |-> pc, op |-> op, game_id |-> game_id, payload |-> payload,
     old_status |-> "in_progress", history |-> <<>>, attempts_left |-> 0,
     feedback |-> None, resp |-> None]

Idle == Frame("idle", "none", UnknownId, <<>>)

\* ------------------------------------------------------- app/repository
\* The tables of models.py. A games row is keyed by its id, the guesses
\* rows are kept in the order of their autoincrement id, and the stats
\* table holds at most the row with id 1. The isolation level is that of
\* the server the DATABASE_URL names: db.py sets none.
IsolationLevels == {"READ COMMITTED", "REPEATABLE READ"}

EmptyDb(isolation) ==
    [games |-> <<>>, guesses |-> <<>>, stats |-> None, isolation |-> isolation]

GameORM(secret, attempts, difficulty) ==
    [secret |-> secret, attempts_left |-> attempts,
     initial_attempts |-> attempts, difficulty |-> difficulty,
     status |-> "in_progress", hint_used |-> FALSE,
     revealed_positions |-> <<>>, created_at |-> 0, updated_at |-> 0]

\* The row guess adds for an attempt on a loaded game.
GuessORM(game_id, game, attempt) ==
    LET result == score_guess(game.secret, attempt)
    IN  [game_id |-> game_id, guess |-> attempt,
         correct_numbers |-> result[1], correct_positions |-> result[2],
         message |-> IF result[1] = 0 /\ result[2] = 0
                     THEN <<"all incorrect">>
                     ELSE <<result[1], "correct number(s) and",
                            result[2], "correct location(s)">>,
         timestamp |-> Time(game)]

\* select(GuessORM).where(game_id == ...).order_by(timestamp.asc()): the
\* clock is monotonic, so the order is that of insertion.
HistoryRows(database, game_id) ==
    SelectSeq(database.guesses, LAMBDA row : row.game_id = game_id)

\* The uuid4 of DBGameStore.create: an identifier no row and no pending row has.
NewRowId(taken) ==
    CHOOSE id \in GameIds \cup {UnknownId} :
        id \in GameIds \ taken \/ (GameIds \subseteq taken /\ id = UnknownId)

\* guess, the branch taken after db.get
DBGuessBranch(database, game_id, attempt) ==
    IF game_id \notin DOMAIN database.games THEN "None"
    ELSE IF database.games[game_id].status # "in_progress" THEN "finished"
    ELSE IF Len(database.games[game_id].secret) # Len(attempt) THEN "ValueError"
    ELSE IF score_guess_raises(database.games[game_id].secret, attempt)
         THEN "ValueError"
    ELSE "accepted"

\* guess, the attributes it sets on the loaded game
\* Mutant: the status is decided on attempts_left as it was before the decrement.
DBGameAfterGuess_StatusBeforeDecrement(game, attempt) ==
    [game EXCEPT !.attempts_left = @ - 1,
                 !.status = IF is_win(game.secret, attempt) THEN "won"
                            ELSE IF game.attempts_left <= 0 THEN "lost"
                            ELSE @,
                 !.updated_at = Time(game)]

DBGameAfterGuess(game, attempt) ==
    LET attempts_left == game.attempts_left - 1
    IN  [game EXCEPT !.attempts_left = attempts_left,
                     !.status = IF is_win(game.secret, attempt) THEN "won"
                                ELSE IF attempts_left <= 0 THEN "lost"
                                ELSE @,
                     !.updated_at = Time(game)]

DB_update_stats_on_end(st, game, won) ==
    IF won
    THEN LET guesses_used == game.initial_attempts - game.attempts_left
             current_streak == st.current_streak + 1
         IN  [st EXCEPT !.games_won = @ + 1,
                        ![IF game.difficulty = "easy" THEN "easy_won"
                          ELSE IF game.difficulty = "hard" THEN "hard_won"
                          ELSE "medium_won"] = @ + 1,
                        !.current_streak = current_streak,
                        !.best_streak = IF current_streak > @
                                        THEN current_streak ELSE @,
                        !.total_guesses_in_wins = @ + guesses_used,
                        !.fastest_win_attempts =
                            IF @ = None \/ (\E f \in @ : guesses_used < f)
                            THEN Some(guesses_used) ELSE @]
    ELSE [st EXCEPT !.games_lost = @ + 1, !.current_streak = 0]

\* create, the increments on the stats row
DBStartedIncrements(st, difficulty) ==
    [st EXCEPT !.games_started = @ + 1,
               ![IF difficulty = "easy" THEN "easy_started"
                 ELSE IF difficulty = "hard" THEN "hard_started"
                 ELSE "medium_started"] = @ + 1]

\* give_hint, the branch taken after db.get
DBHintBranch(database, game_id) ==
    IF game_id \notin DOMAIN database.games THEN "not_found"
    ELSE IF database.games[game_id].status # "in_progress" THEN "finished"
    ELSE IF database.games[game_id].hint_used THEN "already_used"
    ELSE IF Len(database.games[game_id].revealed_positions)
                >= Len(database.games[game_id].secret)
         THEN "already_used"
    ELSE "ok"

\* _get_or_create_stats: the row with id 1, inserted with its defaults if absent.
StatsRowOf(database) ==
    IF database.stats = None THEN Stats ELSE CHOOSE row \in database.stats : TRUE

\* The UPDATE a flush emits: the attributes changed since the row was
\* loaded are written, the other columns keep their committed values.
Flushed(committed, loaded, local) ==
    [column \in DOMAIN committed |->
        IF local[column] # loaded[column] THEN local[column] ELSE committed[column]]

\* The SQLAlchemy Session of a request: where the method is, the objects it
\* has loaded and changed, the rows it has added and not yet flushed.
Session(pc, op, game_id, attempt) ==
    [pc |-> pc, op |-> op, game_id |-> game_id, attempt |-> attempt,
     loaded |-> None, game |-> None, added |-> FALSE, guess_row |-> None,
     snapshot |-> None, stats_loaded |-> None, stats |-> None,
     result |-> "None"]

Closed == Session("closed", "none", UnknownId, <<>>)

InitDB ==
    /\ db = EmptyDb("REPEATABLE READ")
    /\ orm = [t \in Threads |-> Closed]
    /\ dbLast = NoCall

\* What the in-memory actions leave alone.
dbvars == <<db, orm, dbLast>>

Init ==
    /\ games = <<>>
    /\ stats = Stats
    /\ outcomeCalls = [g \in GameIds |-> 0]
    /\ acceptedCalls = [g \in GameIds |-> 0]
    /\ last = NoCall
    /\ lock = NoThread
    /\ th = [t \in Threads |-> Idle]
    /\ InitDB

\* Spec: the store driven through its methods, results not recorded.
Next ==
    \/ \E args \in CreateArgs, attempts \in 1..MaxAttempts :
           create(args[1], attempts, args[2]) /\ UNCHANGED <<last, dbvars>>
    \/ \E game_id \in GameIds \cup {UnknownId} : get(game_id) /\ UNCHANGED <<last, dbvars>>
    \/ \E game_id \in GameIds \cup {UnknownId}, attempt \in Guesses :
           guess(game_id, attempt) /\ UNCHANGED <<last, dbvars>>
    \/ \E game_id \in GameIds \cup {UnknownId} : give_hint(game_id) /\ UNCHANGED <<last, dbvars>>
    \/ get_stats /\ UNCHANGED <<last, dbvars>>
    \/ reset_stats /\ UNCHANGED <<last, dbvars>>

Spec == Init /\ [][Next]_vars

\* SpecQuiet: the store driven through its methods, reset_stats called only
\* while no session is in progress.
NoSessionInProgress == \A g \in DOMAIN games : games[g].status # "in_progress"

NextQuiet ==
    \/ \E args \in CreateArgs, attempts \in 1..MaxAttempts :
           create(args[1], attempts, args[2]) /\ UNCHANGED <<last, dbvars>>
    \/ \E game_id \in GameIds \cup {UnknownId} : get(game_id) /\ UNCHANGED <<last, dbvars>>
    \/ \E game_id \in GameIds \cup {UnknownId}, attempt \in Guesses :
           guess(game_id, attempt) /\ UNCHANGED <<last, dbvars>>
    \/ \E game_id \in GameIds \cup {UnknownId} : give_hint(game_id) /\ UNCHANGED <<last, dbvars>>
    \/ get_stats /\ UNCHANGED <<last, dbvars>>
    \/ NoSessionInProgress /\ reset_stats /\ UNCHANGED <<last, dbvars>>

SpecQuiet == Init /\ [][NextQuiet]_vars

\* SpecCalls: the same methods, each call's result recorded in last.
CallArgs == {<<(<<2, 1>>), "medium">>}

NextCalls ==
    \/ \E args \in CallArgs :
           create(args[1], MaxAttempts, args[2]) /\ last' = create_returns
               /\ UNCHANGED dbvars
    \/ \E game_id \in GameIds \cup {UnknownId} :
           get(game_id) /\ last' = get_returns(game_id)
               /\ UNCHANGED dbvars
    \/ \E game_id \in GameIds \cup {UnknownId}, attempt \in Guesses :
           guess(game_id, attempt) /\ last' = guess_returns(game_id, attempt)
               /\ UNCHANGED dbvars
    \/ \E game_id \in GameIds \cup {UnknownId} :
           give_hint(game_id) /\ last' = give_hint_returns(game_id)
               /\ UNCHANGED dbvars
    \/ \E game_id \in GameIds \cup {UnknownId}, payload \in Guesses :
           submit_guess(game_id, payload) /\ last' = submit_guess_returns(game_id, payload)
               /\ UNCHANGED dbvars
    \/ get_stats /\ last' = get_stats_returns
               /\ UNCHANGED dbvars
    \/ reset_stats /\ last' = reset_stats_returns
               /\ UNCHANGED dbvars

SpecCalls == Init /\ [][NextCalls]_vars

\* SpecAttempts: the store's methods with create given any attempts value
\* from 0 up, which neither create nor the Game dataclass rejects.
NextAttempts ==
    \/ \E args \in CallArgs, attempts \in 0..MaxAttempts :
           create(args[1], attempts, args[2]) /\ UNCHANGED <<last, dbvars>>
    \/ \E game_id \in GameIds \cup {UnknownId} : get(game_id) /\ UNCHANGED <<last, dbvars>>
    \/ \E game_id \in GameIds \cup {UnknownId}, attempt \in Guesses :
           guess(game_id, attempt) /\ UNCHANGED <<last, dbvars>>
    \/ \E game_id \in GameIds \cup {UnknownId} : give_hint(game_id) /\ UNCHANGED <<last, dbvars>>
    \/ get_stats /\ UNCHANGED <<last, dbvars>>
    \/ reset_stats /\ UNCHANGED <<last, dbvars>>

SpecAttempts == Init /\ [][NextAttempts]_vars

\* ------------------------------------------------- the engine on its own
\* SpecEngine: score_guess and is_win applied to a pair of codes. The digits
\* run one past each end of 0..7; the codes are all those of up to two
\* digits, those of three digits over 0, 1 and 7, and the codes of the
\* examples in the engine's docstring and tests.
ScoreDigits == (0..MaxDigit) \cup {-1, MaxDigit + 1}

ScoreCodes ==
    {<<>>} \cup {<<a>> : a \in ScoreDigits}
        \cup {<<a, b>> : a, b \in ScoreDigits}
        \cup {<<a, b, c>> : a, b, c \in {0, 1, MaxDigit}}
        \cup {<<0, 1, 3, 5>>, <<0, 2, 4, 6>>, <<2, 2, 5, 5>>, <<2, 5, 2, 5>>,
              <<0, 1, 2, 3>>, <<4, 5, 6, 7>>}

\* The engine called with (secret, attempt): what score_guess did, once it has
\* run, and what is_win returned, once it has run.
EngineCall(secret, attempt) ==
    [op |-> "engine", secret |-> secret, guess |-> attempt,
     scored |-> FALSE, raised |-> FALSE, result |-> <<>>,
     tested |-> FALSE, win |-> FALSE]

InitEngine ==
    /\ games = <<>>
    /\ stats = Stats
    /\ outcomeCalls = [g \in GameIds |-> 0]
    /\ acceptedCalls = [g \in GameIds |-> 0]
    /\ lock = NoThread
    /\ th = [t \in Threads |-> Idle]
    /\ last \in {EngineCall(secret, attempt) : secret, attempt \in ScoreCodes}
    /\ InitDB

\* Mutant: a guess of another length is cut or padded to the secret's length.
score_guess_call_Truncates ==
    /\ ~last.scored
    /\ last' = IF Len(last.secret) = 0
               THEN [last EXCEPT !.scored = TRUE, !.raised = TRUE]
               ELSE [last EXCEPT !.scored = TRUE,
                                 !.result = score_guess(
                                     last.secret,
                                     [i \in 1..Len(last.secret) |->
                                         IF i <= Len(last.guess) THEN last.guess[i] ELSE 0])]
    /\ UNCHANGED <<games, stats, lock, th, outcomeCalls, acceptedCalls>>

score_guess_call ==
    /\ ~last.scored
    /\ last' = IF score_guess_raises(last.secret, last.guess)
               THEN [last EXCEPT !.scored = TRUE, !.raised = TRUE]
               ELSE [last EXCEPT !.scored = TRUE,
                                 !.result = score_guess(last.secret, last.guess)]
    /\ UNCHANGED <<games, stats, lock, th, outcomeCalls, acceptedCalls>>

is_win_call ==
    /\ ~last.tested
    /\ last' = [last EXCEPT !.tested = TRUE, !.win = is_win(last.secret, last.guess)]
    /\ UNCHANGED <<games, stats, lock, th, outcomeCalls, acceptedCalls>>

NextEngine ==
    \/ score_guess_call /\ UNCHANGED dbvars
    \/ is_win_call /\ UNCHANGED dbvars

SpecEngine == InitEngine /\ [][NextEngine]_vars

\* ------------------------------------------------ requests in threads
\* SpecConc: the routes run in the server's thread pool. Each action is one
\* step of one request; the steps of a request that run under
\* GameStore._lock are taken while lock names its thread.

\* Mutant: the store's lock excludes nobody.
CanAcquire_NoExclusion(t) == TRUE

\* with self._lock: an RLock, free or already held by the same thread.
CanAcquire(t) == lock \in {NoThread, t}

Response(code, body) == [code |-> code, body |-> body]

NewGameResponse(game_id, attempts_left, status, difficulty) ==
    [game_id |-> game_id, attempts_left |-> attempts_left,
     status |-> status, difficulty |-> difficulty]

GameState(game_id, attempts_left, status, history) ==
    [game_id |-> game_id, attempts_left |-> attempts_left,
     status |-> status, history |-> history]

\* StatsOut: the counters and the average, kept as the pair it divides.
StatsOut(st) ==
    st @@ [average_guesses_to_win |->
               IF st.games_won > 0
               THEN Some(<<st.total_guesses_in_wins, st.games_won>>)
               ELSE None]

\* A thread that can take the next request.
Ready(t) == th[t].pc \in {"idle", "done"}

\* The request of thread t ends with this response.
Respond(t, code, body) ==
    th' = [th EXCEPT ![t].pc = "done", ![t].resp = Some(Response(code, body))]

Goto(t, pc) == th' = [th EXCEPT ![t].pc = pc]

\* The ids a client can name: those a start_game response has carried.
Published ==
    DOMAIN games \ {th[t].game_id : t \in {u \in Threads : th[u].op = "start_game"
                                                         /\ th[u].pc # "done"}}

\* start_game: create inserts the session under the lock ...
start_game_insert(t, secret, attempts, difficulty) ==
    /\ Ready(t) /\ CanAcquire(t)
    /\ DOMAIN games = {} /\ NewId \in GameIds
    /\ lock' = t
    /\ games' = InsertGame(games, NewId, Game(secret, attempts, difficulty))
    /\ th' = [th EXCEPT ![t] = Frame("create_started", "start_game", NewId, <<>>)]
    /\ UNCHANGED <<stats, last, outcomeCalls, acceptedCalls>>

\* ... counts it as started ...
start_game_started(t) ==
    /\ th[t].pc = "create_started"
    /\ stats' = IncGamesStarted(stats)
    /\ Goto(t, "create_difficulty")
    /\ UNCHANGED <<games, lock, last, outcomeCalls, acceptedCalls>>

\* ... counts its difficulty, releases the lock, and the route answers.
start_game_respond(t) ==
    /\ th[t].pc = "create_difficulty"
    /\ LET game == games[th[t].game_id]
       IN  /\ stats' = IncDifficultyStarted(stats, game.difficulty)
           /\ Respond(t, "200", NewGameResponse(th[t].game_id, game.attempts_left,
                                                game.status, game.difficulty))
    /\ lock' = NoThread
    /\ UNCHANGED <<games, last, outcomeCalls, acceptedCalls>>

\* get_game: store.get under the lock; the session it returns is the live one.
get_game_lookup(t, game_id) ==
    /\ Ready(t) /\ CanAcquire(t)
    /\ IF game_id \in DOMAIN games
       THEN th' = [th EXCEPT ![t] = Frame("get_history", "get_game", game_id, <<>>)]
       ELSE th' = [th EXCEPT ![t] =
                      [Frame("done", "get_game", game_id, <<>>)
                           EXCEPT !.resp = Some(Response("404", <<>>))]]
    /\ UNCHANGED <<games, stats, lock, last, outcomeCalls, acceptedCalls>>

\* get_game copies the history, the loop ending at the length it then has ...
get_game_history(t) ==
    /\ th[t].pc = "get_history"
    /\ th' = [th EXCEPT ![t].pc = "get_attempts",
                        ![t].history = games[th[t].game_id].history]
    /\ UNCHANGED <<games, stats, lock, last, outcomeCalls, acceptedCalls>>

\* ... then reads attempts_left ...
get_game_attempts(t) ==
    /\ th[t].pc = "get_attempts"
    /\ th' = [th EXCEPT ![t].pc = "get_status",
                        ![t].attempts_left = games[th[t].game_id].attempts_left]
    /\ UNCHANGED <<games, stats, lock, last, outcomeCalls, acceptedCalls>>

\* ... then status, and answers.
get_game_status(t) ==
    /\ th[t].pc = "get_status"
    /\ Respond(t, "200", GameState(th[t].game_id, th[t].attempts_left,
                                   games[th[t].game_id].status, th[t].history))
    /\ UNCHANGED <<games, stats, lock, last, outcomeCalls, acceptedCalls>>

\* submit_guess: store.get under the lock.
submit_guess_lookup(t, game_id, payload) ==
    /\ Ready(t) /\ CanAcquire(t)
    /\ IF game_id \in DOMAIN games
       THEN th' = [th EXCEPT ![t] = Frame("guess_check", "submit_guess", game_id, payload)]
       ELSE th' = [th EXCEPT ![t] =
                      [Frame("done", "submit_guess", game_id, payload)
                           EXCEPT !.resp = Some(Response("404", <<>>))]]
    /\ UNCHANGED <<games, stats, lock, last, outcomeCalls, acceptedCalls>>

\* The route's own finished and length checks, on the live session.
submit_guess_check(t) ==
    /\ th[t].pc = "guess_check"
    /\ LET branch == RouteBranch(games, th[t].game_id, th[t].payload)
       IN  IF branch = "finished"
           THEN Respond(t, "200", FinishedResponse(games[th[t].game_id]))
           ELSE IF branch = "400"
           THEN Respond(t, "400", <<>>)
           ELSE Goto(t, "guess_call")
    /\ UNCHANGED <<games, stats, lock, last, outcomeCalls, acceptedCalls>>

\* store.guess takes the lock and passes or fails its guards.
guess_enter(t) ==
    /\ th[t].pc = "guess_call"
    /\ CanAcquire(t)
    /\ LET branch == GuessBranch(games, th[t].game_id, th[t].payload)
       IN  IF branch = "accepted"
           THEN /\ lock' = t
                /\ th' = [th EXCEPT ![t].pc = "guess_append",
                                    ![t].old_status = games[th[t].game_id].status]
                /\ acceptedCalls' = [acceptedCalls EXCEPT ![th[t].game_id] = @ + 1]
           ELSE /\ IF branch = "ValueError"
                   THEN Respond(t, "400", <<>>)
                   ELSE Goto(t, "guess_feedback")
                /\ UNCHANGED <<lock, acceptedCalls>>
    /\ UNCHANGED <<games, stats, last, outcomeCalls>>

guess_append(t) ==
    /\ th[t].pc = "guess_append"
    /\ games' = [games EXCEPT ![th[t].game_id] = AppendHistory(@, th[t].payload)]
    /\ Goto(t, "guess_decrement")
    /\ UNCHANGED <<stats, lock, last, outcomeCalls, acceptedCalls>>

guess_decrement(t) ==
    /\ th[t].pc = "guess_decrement"
    /\ games' = [games EXCEPT ![th[t].game_id] = DecrementAttempts(@)]
    /\ Goto(t, "guess_status")
    /\ UNCHANGED <<stats, lock, last, outcomeCalls, acceptedCalls>>

guess_status(t) ==
    /\ th[t].pc = "guess_status"
    /\ games' = [games EXCEPT ![th[t].game_id] = UpdateStatus(@, th[t].payload)]
    /\ Goto(t, "guess_stats")
    /\ UNCHANGED <<stats, lock, last, outcomeCalls, acceptedCalls>>

\* The scoreboard update on the transition, then the lock is released.
guess_stats(t) ==
    /\ th[t].pc = "guess_stats"
    /\ LET game == games[th[t].game_id]
       IN  IF TransitionDetected(th[t].old_status, game)
           THEN /\ stats' = update_stats_on_end(stats, game, game.status = "won")
                /\ outcomeCalls' = [outcomeCalls EXCEPT ![th[t].game_id] = @ + 1]
           ELSE UNCHANGED <<stats, outcomeCalls>>
    /\ lock' = NoThread
    /\ Goto(t, "guess_feedback")
    /\ UNCHANGED <<games, last, acceptedCalls>>

\* Back in the route: the latest history entry is taken as the feedback.
submit_guess_feedback(t) ==
    /\ th[t].pc = "guess_feedback"
    /\ LET history == games[th[t].game_id].history
       IN  IF Len(history) = 0
           THEN Respond(t, "500", <<>>)
           ELSE th' = [th EXCEPT ![t].pc = "guess_ended",
                                 ![t].feedback = Some(history[Len(history)])]
    /\ UNCHANGED <<games, stats, lock, last, outcomeCalls, acceptedCalls>>

\* The route's test of game.status, and the response of an ended session.
submit_guess_ended(t) ==
    /\ th[t].pc = "guess_ended"
    /\ LET game == games[th[t].game_id]
       IN  IF game.status # "in_progress"
           THEN Respond(t, "200",
                        GuessResponse(game.attempts_left, game.status, th[t].feedback,
                                      Some(game.secret), Some(Note(game.status))))
           ELSE Goto(t, "guess_attempts")
    /\ UNCHANGED <<games, stats, lock, last, outcomeCalls, acceptedCalls>>

\* The in-progress response reads attempts_left ...
submit_guess_attempts(t) ==
    /\ th[t].pc = "guess_attempts"
    /\ th' = [th EXCEPT ![t].pc = "guess_respond",
                        ![t].attempts_left = games[th[t].game_id].attempts_left]
    /\ UNCHANGED <<games, stats, lock, last, outcomeCalls, acceptedCalls>>

\* ... and then status again.
submit_guess_respond(t) ==
    /\ th[t].pc = "guess_respond"
    /\ Respond(t, "200",
               GuessResponse(th[t].attempts_left, games[th[t].game_id].status,
                             th[t].feedback, None, None))
    /\ UNCHANGED <<games, stats, lock, last, outcomeCalls, acceptedCalls>>

\* get_stats: the route reads the live scoreboard without the lock.
get_stats_respond(t) ==
    /\ Ready(t)
    /\ th' = [th EXCEPT ![t] = [Frame("done", "get_stats", UnknownId, <<>>)
                                   EXCEPT !.resp = Some(Response("200", StatsOut(stats)))]]
    /\ UNCHANGED <<games, stats, lock, last, outcomeCalls, acceptedCalls>>

NextConc ==
    \/ \E t \in Threads, args \in CallArgs :
           start_game_insert(t, args[1], MaxAttempts, args[2]) /\ UNCHANGED dbvars
    \/ \E t \in Threads : start_game_started(t) /\ UNCHANGED dbvars
    \/ \E t \in Threads : start_game_respond(t) /\ UNCHANGED dbvars
    \/ \E t \in Threads, game_id \in Published \cup {UnknownId} :
           get_game_lookup(t, game_id) /\ UNCHANGED dbvars
    \/ \E t \in Threads : get_game_history(t) /\ UNCHANGED dbvars
    \/ \E t \in Threads : get_game_attempts(t) /\ UNCHANGED dbvars
    \/ \E t \in Threads : get_game_status(t) /\ UNCHANGED dbvars
    \/ \E t \in Threads, game_id \in Published \cup {UnknownId}, payload \in Guesses :
           submit_guess_lookup(t, game_id, payload) /\ UNCHANGED dbvars
    \/ \E t \in Threads : submit_guess_check(t) /\ UNCHANGED dbvars
    \/ \E t \in Threads : guess_enter(t) /\ UNCHANGED dbvars
    \/ \E t \in Threads : guess_append(t) /\ UNCHANGED dbvars
    \/ \E t \in Threads : guess_decrement(t) /\ UNCHANGED dbvars
    \/ \E t \in Threads : guess_status(t) /\ UNCHANGED dbvars
    \/ \E t \in Threads : guess_stats(t) /\ UNCHANGED dbvars
    \/ \E t \in Threads : submit_guess_feedback(t) /\ UNCHANGED dbvars
    \/ \E t \in Threads : submit_guess_ended(t) /\ UNCHANGED dbvars
    \/ \E t \in Threads : submit_guess_attempts(t) /\ UNCHANGED dbvars
    \/ \E t \in Threads : submit_guess_respond(t) /\ UNCHANGED dbvars
    \/ \E t \in Threads : get_stats_respond(t) /\ UNCHANGED dbvars

SpecConc == Init /\ [][NextConc]_vars

\* ------------------------------------------------------------ fetch_code
\* The number of values the range check of fetch_code looks at.
RangeCheckCount == 4

\* What random.org can do with a request: answer with lines of integers in
\* any number and of any value, answer with text that is not integers,
\* answer with an HTTP error status, or not answer in time.
RemoteDigits == {-1, 0, MaxDigit, MaxDigit + 1}

RECURSIVE CodesOver(_, _)
CodesOver(digits, length) ==
    IF length = 0 THEN {<<>>}
    ELSE {Append(code, d) : code \in CodesOver(digits, length - 1), d \in digits}

Remote(kind, values) == [kind |-> kind, values |-> values]

RemoteBehaviours(length) ==
    {Remote("values", values) :
         values \in CodesOver(RemoteDigits, length - 1)
                    \cup CodesOver(RemoteDigits, length)
                    \cup CodesOver(RemoteDigits, length + 1)}
    \cup {Remote("not_integers", <<>>), Remote("http_error", <<>>),
          Remote("timeout", <<>>)}

\* The digits randbelow(8) contributes to a fallback code in this model.
FallbackDigits == {0, MaxDigit}

FallbackCodes(length) == CodesOver(FallbackDigits \cap RandBelow(MaxDigit + 1), length)

\* The loop `while j < 4`: it raises IndexError when the response has fewer
\* than four values and ValueError at a value outside 0..7 among the first four.
RangeCheckPasses(digits) ==
    /\ Len(digits) >= RangeCheckCount
    /\ \A j \in 1..RangeCheckCount : digits[j] >= 0 /\ digits[j] <= MaxDigit

\* The try block returns the parsed values, or something in it raises.
TryReturns(length, remote) ==
    /\ remote.kind = "values"
    /\ Len(remote.values) = length
    /\ RangeCheckPasses(remote.values)

\* The codes fetch_code(length) can return under a remote behaviour.
fetch_code(length, remote) ==
    IF TryReturns(length, remote) THEN {remote.values} ELSE FallbackCodes(length)

\* SpecFetch: one call of fetch_code per behaviour of the remote service.
CodeLengths == {3, 4, 5}

FetchCall(length, remote, path, returned) ==
    [op |-> "fetch_code", length |-> length, remote |-> remote,
     path |-> path, returned |-> returned]

InitFetch ==
    /\ games = <<>> /\ stats = Stats /\ lock = NoThread
    /\ th = [t \in Threads |-> Idle]
    /\ outcomeCalls = [g \in GameIds |-> 0]
    /\ acceptedCalls = [g \in GameIds |-> 0]
    /\ \E length \in CodeLengths :
           \E remote \in RemoteBehaviours(length) :
               last = FetchCall(length, remote, "called", None)
    /\ InitDB

fetch_code_call ==
    /\ last.op = "fetch_code" /\ last.path = "called"
    /\ \E code \in fetch_code(last.length, last.remote) :
           last' = [last EXCEPT
                        !.path = IF TryReturns(last.length, last.remote)
                                 THEN "remote" ELSE "fallback",
                        !.returned = Some(code)]
    /\ UNCHANGED <<games, stats, lock, th, outcomeCalls, acceptedCalls>>

NextFetch == fetch_code_call /\ UNCHANGED dbvars

SpecFetch == InitFetch /\ [][NextFetch]_vars

\* ------------------------------------------------------------ start_game
\* SpecStart: sessions are created through the start_game route.
DifficultyInputs == {"easy", "medium", "hard", "bogus"}

\* The remote behaviours start_game meets in this specification: no answer,
\* a well-formed answer, and an answer whose last value is out of range.
StartRemotes(length) ==
    {Remote("timeout", <<>>),
     Remote("values", [i \in 1..length |-> 0]),
     Remote("values", [i \in 1..length |-> IF i = length THEN MaxDigit + 1 ELSE 0])}

\* Mutant: an unrecognized difficulty gets the easy preset.
Preset_UnknownIsEasy(difficulty) ==
    IF difficulty = "hard"
    THEN [difficulty |-> "hard", length |-> 5, attempts |-> 12]
    ELSE IF difficulty = "medium"
    THEN [difficulty |-> "medium", length |-> 4, attempts |-> 10]
    ELSE [difficulty |-> "easy", length |-> 3, attempts |-> 8]

\* The if/elif/else of start_game.
Preset(difficulty) ==
    IF difficulty = "easy"
    THEN [difficulty |-> "easy", length |-> 3, attempts |-> 8]
    ELSE IF difficulty = "hard"
    THEN [difficulty |-> "hard", length |-> 5, attempts |-> 12]
    ELSE [difficulty |-> "medium", length |-> 4, attempts |-> 10]

start_game(difficulty, remote, secret) ==
    /\ secret \in fetch_code(Preset(difficulty).length, remote)
    /\ create(secret, Preset(difficulty).attempts, Preset(difficulty).difficulty)
    /\ last' = Call("start_game", NewId, <<>>, "200",
                    <<difficulty,
                      NewGameResponse(NewId, games'[NewId].attempts_left,
                                      games'[NewId].status,
                                      Preset(difficulty).difficulty)>>)

NextStart ==
    \E difficulty \in DifficultyInputs :
        \E remote \in StartRemotes(Preset(difficulty).length) :
            \E secret \in fetch_code(Preset(difficulty).length, remote) :
                start_game(difficulty, remote, secret) /\ UNCHANGED dbvars

SpecStart == Init /\ [][NextStart]_vars

\* ------------------------------------------- DBGameStore, request by request
\* SpecDB: each request has its own Session; a method's reads and commits
\* are the steps, and what it computes in between is local to the request.
memvars == <<games, stats, lock, th, last, outcomeCalls, acceptedCalls>>

Open(t) == orm[t].pc = "closed"

Returned(t, op, game_id, attempt, result) ==
    /\ orm' = [orm EXCEPT ![t] = [Session("closed", op, game_id, attempt)
                                      EXCEPT !.result = result]]
    /\ dbLast' = Call(op, game_id, attempt, result, <<>>)

\* The ids of the rows the open sessions have added and not yet flushed.
PendingIds == {orm[t].game_id : t \in {u \in Threads : orm[u].added}}

\* create, called while the games table is empty: the new GameORM is added
\* to the session, and _get_or_create_stats looks for the stats row.
DBGameStore_create_add(t, secret, attempts, difficulty) ==
    /\ Open(t)
    /\ DOMAIN db.games = {}
    /\ NewRowId(DOMAIN db.games \cup PendingIds) \in GameIds
    /\ orm' = [orm EXCEPT ![t] =
                  [Session(IF db.stats = None THEN "stats_missing" ELSE "increment",
                           "create",
                           NewRowId(DOMAIN db.games \cup PendingIds), <<>>)
                       EXCEPT !.game = Some(GameORM(secret, attempts, difficulty)),
                              !.added = TRUE,
                              !.stats_loaded = db.stats,
                              !.stats = db.stats]]
    /\ UNCHANGED <<db, dbLast>>

\* ... there is none: _get_or_create_stats adds it and commits, which
\* flushes the pending game row with it, and refreshes the stats row. A
\* concurrent request that has inserted the row meanwhile makes the INSERT
\* fail on the primary key.
DBGameStore_create_stats_row(t) ==
    /\ orm[t].pc = "stats_missing"
    /\ IF db.stats # None
       THEN /\ Returned(t, "create", orm[t].game_id, <<>>, "IntegrityError")
            /\ UNCHANGED db
       ELSE /\ db' = [db EXCEPT
                         !.games = [g \in DOMAIN @ \cup {orm[t].game_id} |->
                                       IF g = orm[t].game_id
                                       THEN CHOOSE row \in orm[t].game : TRUE
                                       ELSE @[g]],
                         !.stats = Some(Stats)]
            /\ orm' = [orm EXCEPT ![t].pc = "increment",
                                  ![t].added = FALSE,
                                  ![t].stats_loaded = Some(Stats),
                                  ![t].stats = Some(Stats)]
            /\ UNCHANGED dbLast
    /\ UNCHANGED memvars

\* ... the started counters are raised on the loaded row and create commits.
DBGameStore_create_commit(t) ==
    /\ orm[t].pc = "increment"
    /\ LET game == CHOOSE row \in orm[t].game : TRUE
           loaded == CHOOSE row \in orm[t].stats_loaded : TRUE
           local == DBStartedIncrements(loaded, game.difficulty)
       IN  db' = [db EXCEPT
                     !.games = IF orm[t].added
                               THEN [g \in DOMAIN @ \cup {orm[t].game_id} |->
                                        IF g = orm[t].game_id THEN game ELSE @[g]]
                               ELSE @,
                     !.stats = Some(Flushed(StatsRowOf(db), loaded, local))]
    /\ Returned(t, "create", orm[t].game_id, <<>>, "game")
    /\ UNCHANGED memvars

\* guess: db.get loads the game; the checks, the score, the new GuessORM
\* and the new attempts_left, status and updated_at are local to the request.
DBGameStore_guess_load(t, game_id, attempt) ==
    /\ Open(t)
    /\ LET branch == DBGuessBranch(db, game_id, attempt)
       IN  IF branch = "accepted"
           THEN LET game == DBGameAfterGuess(db.games[game_id], attempt)
                IN  /\ orm' = [orm EXCEPT ![t] =
                                  [Session(IF game.status \in Terminal
                                           THEN "stats" ELSE "commit",
                                           "guess", game_id, attempt)
                                       EXCEPT !.loaded = Some(db.games[game_id]),
                                              !.game = Some(game),
                                              !.guess_row =
                                                  Some(GuessORM(game_id,
                                                                db.games[game_id],
                                                                attempt)),
                                              !.snapshot = db.stats]]
                    /\ UNCHANGED dbLast
           ELSE Returned(t, "guess", game_id, attempt,
                         IF branch = "finished" THEN "game" ELSE branch)
    /\ UNCHANGED db
    /\ UNCHANGED memvars

\* ... the game has ended: _update_stats_on_end reads the stats row, as the
\* isolation level shows it, and changes it locally.
DBGameStore_guess_stats(t) ==
    /\ orm[t].pc = "stats"
    /\ LET seen == IF db.isolation = "REPEATABLE READ"
                   THEN orm[t].snapshot ELSE db.stats
           loaded == IF seen = None THEN Stats ELSE CHOOSE row \in seen : TRUE
           game == CHOOSE row \in orm[t].game : TRUE
       IN  orm' = [orm EXCEPT
                      ![t].pc = "commit",
                      ![t].stats_loaded = Some(loaded),
                      ![t].stats = Some(DB_update_stats_on_end(
                                            loaded, game, game.status = "won"))]
    /\ UNCHANGED <<db, dbLast>>
    /\ UNCHANGED memvars

\* ... commit: the flush inserts the guess row and updates the changed
\* columns of the game row and of the stats row.
DBGameStore_guess_commit(t) ==
    /\ orm[t].pc = "commit"
    /\ LET game_id == orm[t].game_id
           loaded == CHOOSE row \in orm[t].loaded : TRUE
           game == CHOOSE row \in orm[t].game : TRUE
       IN  db' = [db EXCEPT
                     !.games[game_id] = Flushed(@, loaded, game),
                     !.guesses = Append(@, CHOOSE row \in orm[t].guess_row : TRUE),
                     !.stats = IF orm[t].stats = None THEN @
                               ELSE Some(Flushed(StatsRowOf(db),
                                                 CHOOSE row \in orm[t].stats_loaded : TRUE,
                                                 CHOOSE row \in orm[t].stats : TRUE))]
    /\ Returned(t, "guess", orm[t].game_id, orm[t].attempt, "game")
    /\ UNCHANGED memvars

InitRequests ==
    /\ games = <<>> /\ stats = Stats
    /\ outcomeCalls = [g \in GameIds |-> 0]
    /\ acceptedCalls = [g \in GameIds |-> 0]
    /\ last = NoCall /\ lock = NoThread
    /\ th = [t \in Threads |-> Idle]
    /\ db \in {EmptyDb(isolation) : isolation \in IsolationLevels}
    /\ orm = [t \in Threads |-> Closed]
    /\ dbLast = NoCall

NextDB ==
    \/ \E t \in Threads, args \in CallArgs :
           DBGameStore_create_add(t, args[1], MaxAttempts, args[2])
               /\ UNCHANGED memvars
    \/ \E t \in Threads : DBGameStore_create_stats_row(t)
    \/ \E t \in Threads : DBGameStore_create_commit(t)
    \/ \E t \in Threads, game_id \in GameIds \cup {UnknownId}, attempt \in Guesses :
           DBGameStore_guess_load(t, game_id, attempt)
    \/ \E t \in Threads : DBGameStore_guess_stats(t)
    \/ \E t \in Threads : DBGameStore_guess_commit(t)

SpecDB == InitRequests /\ [][NextDB]_vars

\* --------------------------------------- DBGameStore, one call at a time
\* Each method run from its first line to its return by a single caller.
DBGameStore_create(secret, attempts, difficulty) ==
    /\ NewRowId(DOMAIN db.games) \in GameIds
    /\ db' = [db EXCEPT
                 !.games = [g \in DOMAIN @ \cup {NewRowId(DOMAIN db.games)} |->
                               IF g = NewRowId(DOMAIN db.games)
                               THEN GameORM(secret, attempts, difficulty)
                               ELSE @[g]],
                 !.stats = Some(DBStartedIncrements(StatsRowOf(db), difficulty))]
    /\ dbLast' = Call("create", NewRowId(DOMAIN db.games), <<>>, "game", <<>>)
    /\ UNCHANGED orm

DBGameStore_guess(game_id, attempt) ==
    /\ LET branch == DBGuessBranch(db, game_id, attempt)
       IN  /\ IF branch = "accepted"
              THEN LET game == DBGameAfterGuess(db.games[game_id], attempt)
                   IN  db' = [db EXCEPT
                                 !.games[game_id] = game,
                                 !.guesses = Append(@, GuessORM(game_id,
                                                                db.games[game_id],
                                                                attempt)),
                                 !.stats = IF game.status \in Terminal
                                           THEN Some(DB_update_stats_on_end(
                                                         StatsRowOf(db), game,
                                                         game.status = "won"))
                                           ELSE @]
              ELSE UNCHANGED db
           /\ dbLast' = Call("guess", game_id, attempt,
                             IF branch \in {"accepted", "finished"}
                             THEN "game" ELSE branch, <<>>)
    /\ UNCHANGED orm

\* index is the value of randbelow that ends the loop.
DBGameStore_give_hint(game_id, index) ==
    /\ LET branch == DBHintBranch(db, game_id)
       IN  IF branch = "ok"
           THEN /\ index \in RandBelow(Len(db.games[game_id].secret))
                /\ \A j \in 1..Len(db.games[game_id].revealed_positions) :
                       db.games[game_id].revealed_positions[j] # index
                /\ db' = [db EXCEPT
                             !.games[game_id].hint_used = TRUE,
                             !.games[game_id].revealed_positions = @ \o <<index>>,
                             !.games[game_id].updated_at = Time(db.games[game_id])]
                /\ dbLast' = Call("give_hint", game_id, <<>>, "ok",
                                  <<index, db.games[game_id].secret[index + 1]>>)
           ELSE /\ UNCHANGED db
                /\ dbLast' = Call("give_hint", game_id, <<>>, branch, <<>>)
    /\ UNCHANGED orm

DBGameStore_reset_stats ==
    /\ db' = [db EXCEPT
                 !.stats = Some([StatsRowOf(db) EXCEPT
                                    !.games_started = 0, !.games_won = 0,
                                    !.games_lost = 0, !.current_streak = 0,
                                    !.best_streak = 0,
                                    !.total_guesses_in_wins = 0,
                                    !.fastest_win_attempts = None,
                                    !.easy_started = 0, !.medium_started = 0,
                                    !.hard_started = 0, !.easy_won = 0,
                                    !.medium_won = 0, !.hard_won = 0])]
    /\ dbLast' = Call("reset_stats", UnknownId, <<>>, "None", <<>>)
    /\ UNCHANGED orm

\* SpecBoth: a GameStore and a DBGameStore given the same calls, with the
\* same secrets and the same randbelow values.
HintIndexes == UNION {RandBelow(Len(secret)) : secret \in Secrets}

\* The create calls of SpecBoth: a medium session first, an easy one second.
BothArgs == {<<(<<2, 1>>), "medium">>, <<(<<1, 2>>), "easy">>}

NextBoth ==
    \/ \E args \in BothArgs :
           /\ (args[2] = "medium") = (DOMAIN games = {})
           /\ create(args[1], MaxAttempts, args[2]) /\ last' = create_returns
           /\ DBGameStore_create(args[1], MaxAttempts, args[2])
    \/ \E game_id \in GameIds \cup {UnknownId}, attempt \in Guesses :
           /\ guess(game_id, attempt) /\ last' = guess_returns(game_id, attempt)
           /\ DBGameStore_guess(game_id, attempt)
    \/ \E game_id \in GameIds \cup {UnknownId}, index \in HintIndexes :
           /\ give_hint(game_id) /\ last' = give_hint_returns(game_id)
           /\ HintBranch(games, game_id) = "ok" => last'.data[1] = index
           /\ DBGameStore_give_hint(game_id, index)
    \/ /\ reset_stats /\ last' = reset_stats_returns
       /\ DBGameStore_reset_stats

SpecBoth == Init /\ [][NextBoth]_vars

\* ------------------------------------------ DBGameStore, the history query
\* SpecOrder: the guesses rows as the DateTime column stores them and as
\* ORDER BY timestamp returns them. Two consecutive utcnow() values can be
\* stored equal (the column keeps whole seconds on MySQL), and rows of equal
\* timestamp come back in an order the query does not fix.
StoredTimestamps(database, game_id) ==
    LET rows == HistoryRows(database, game_id)
    IN  {Time(database.games[game_id])}
        \cup (IF Len(rows) = 0 THEN {} ELSE {rows[Len(rows)].timestamp})

\* The results the history query can give: the rows of the session in any
\* order that is ascending in timestamp.
HistoryOrders(database, game_id) ==
    LET rows == HistoryRows(database, game_id)
        n == Len(rows)
    IN  {[i \in 1..n |-> rows[p[i]]] :
            p \in {q \in [1..n -> 1..n] :
                      /\ \A i, j \in 1..n : i # j => q[i] # q[j]
                      /\ \A i \in 1..n : i < n =>
                             rows[q[i]].timestamp <= rows[q[i + 1]].timestamp}}

\* get: the game and its history as the query returns it.
DBGameStore_get(game_id) ==
    /\ IF game_id \in DOMAIN db.games
       THEN \E history \in HistoryOrders(db, game_id) :
                dbLast' = Call("get", game_id, <<>>, "game", history)
       ELSE dbLast' = Call("get", game_id, <<>>, "None", <<>>)
    /\ UNCHANGED <<db, orm>>

\* guess, with the timestamp the new row is stored with and the history
\* the method reads back for its result.
DBGameStore_guess_history(game_id, attempt) ==
    /\ LET branch == DBGuessBranch(db, game_id, attempt)
       IN  IF branch = "accepted"
           THEN LET game == DBGameAfterGuess(db.games[game_id], attempt)
                IN  \E timestamp \in StoredTimestamps(db, game_id) :
                        /\ db' = [db EXCEPT
                                     !.games[game_id] = game,
                                     !.guesses =
                                         Append(@, [GuessORM(game_id,
                                                             db.games[game_id],
                                                             attempt)
                                                        EXCEPT !.timestamp = timestamp]),
                                     !.stats =
                                         IF game.status \in Terminal
                                         THEN Some(DB_update_stats_on_end(
                                                       StatsRowOf(db), game,
                                                       game.status = "won"))
                                         ELSE @]
                        /\ \E history \in HistoryOrders(db', game_id) :
                               dbLast' = Call("guess", game_id, attempt, "game", history)
           ELSE /\ UNCHANGED db
                /\ IF branch = "finished"
                   THEN \E history \in HistoryOrders(db, game_id) :
                            dbLast' = Call("guess", game_id, attempt, "game", history)
                   ELSE dbLast' = Call("guess", game_id, attempt, branch, <<>>)
    /\ UNCHANGED orm

NextOrder ==
    \/ \E args \in CallArgs :
           DBGameStore_create(args[1], MaxAttempts, args[2]) /\ UNCHANGED memvars
    \/ \E game_id \in GameIds \cup {UnknownId} :
           DBGameStore_get(game_id) /\ UNCHANGED memvars
    \/ \E game_id \in GameIds \cup {UnknownId}, attempt \in Guesses :
           DBGameStore_guess_history(game_id, attempt) /\ UNCHANGED memvars

SpecOrder == Init /\ [][NextOrder]_vars

\* ------------------------------------------------- give_hint, draw by draw
\* SpecHint: the index-selection loop of give_hint run one randbelow value
\* at a time, in GameStore (under the lock) and in DBGameStore.
HintArgs == {<<(<<2, 1>>), "medium">>, <<(<<>>), "easy">>}

\* give_hint up to the loop: the lock, the lookup and the four guards.
give_hint_enter(t, game_id) ==
    /\ Ready(t) /\ CanAcquire(t)
    /\ LET branch == HintBranch(games, game_id)
       IN  IF branch = "ok"
           THEN /\ lock' = t
                /\ th' = [th EXCEPT ![t] = Frame("hint_loop", "give_hint", game_id, <<>>)]
           ELSE /\ th' = [th EXCEPT ![t] =
                             [Frame("done", "give_hint", game_id, <<>>)
                                  EXCEPT !.resp = Some(Response(branch, <<>>))]]
                /\ UNCHANGED lock
    /\ UNCHANGED <<games, stats, last, outcomeCalls, acceptedCalls>>

\* One pass of the loop: a revealed index goes round again, any other index
\* is marked and returned, and the lock is released.
give_hint_draw(t, index) ==
    /\ th[t].pc = "hint_loop" /\ th[t].op = "give_hint"
    /\ LET game == games[th[t].game_id]
       IN  /\ index \in RandBelow(Len(game.secret))
           /\ IF AlreadyRevealed(game, index)
              THEN UNCHANGED <<games, lock, th>>
              ELSE /\ games' = [games EXCEPT ![th[t].game_id] = MarkHint(@, index)]
                   /\ lock' = NoThread
                   /\ Respond(t, "ok", HintData(game, index))
    /\ UNCHANGED <<stats, last, outcomeCalls, acceptedCalls>>

\* DBGameStore.give_hint up to the loop: the game row is loaded into the
\* request's session and the guards run on the loaded object.
DBGameStore_give_hint_load(t, game_id) ==
    /\ Open(t)
    /\ LET branch == DBHintBranch(db, game_id)
       IN  IF branch = "ok"
           THEN /\ orm' = [orm EXCEPT ![t] =
                              [Session("hint_loop", "give_hint", game_id, <<>>)
                                   EXCEPT !.loaded = Some(db.games[game_id])]]
                /\ UNCHANGED dbLast
           ELSE Returned(t, "give_hint", game_id, <<>>, branch)
    /\ UNCHANGED db
    /\ UNCHANGED memvars

\* One pass of the loop on the loaded object, then the commit.
DBGameStore_give_hint_draw(t, index) ==
    /\ orm[t].pc = "hint_loop"
    /\ LET game_id == orm[t].game_id
           loaded == CHOOSE row \in orm[t].loaded : TRUE
       IN  /\ index \in RandBelow(Len(loaded.secret))
           /\ IF \E j \in 1..Len(loaded.revealed_positions) :
                     loaded.revealed_positions[j] = index
              THEN UNCHANGED dbvars
              ELSE /\ db' = [db EXCEPT
                                !.games[game_id] =
                                    Flushed(@, loaded,
                                            [loaded EXCEPT
                                                !.hint_used = TRUE,
                                                !.revealed_positions = @ \o <<index>>,
                                                !.updated_at = Time(loaded)])]
                   /\ orm' = [orm EXCEPT ![t] =
                                 [Session("closed", "give_hint", game_id, <<>>)
                                      EXCEPT !.result = "ok"]]
                   /\ dbLast' = Call("give_hint", game_id, <<>>, "ok",
                                     <<index, loaded.secret[index + 1]>>)
    /\ UNCHANGED memvars

\* The thread that calls GameStore.give_hint; the DBGameStore requests are
\* those of every thread.
HintThread == "t1"

NextHint ==
    \/ \E args \in HintArgs :
           /\ \A t \in Threads : th[t].pc # "hint_loop"
           /\ DOMAIN games = {}
           /\ create(args[1], MaxAttempts, args[2]) /\ UNCHANGED last
           /\ DBGameStore_create(args[1], MaxAttempts, args[2])
    \/ \E game_id \in GameIds, attempt \in {args[1] : args \in HintArgs} \ {<<>>} :
           /\ \A t \in Threads : th[t].pc # "hint_loop"
           /\ guess(game_id, attempt) /\ UNCHANGED last
           /\ DBGameStore_guess(game_id, attempt)
    \/ \E game_id \in GameIds \cup {UnknownId} :
           give_hint_enter(HintThread, game_id) /\ UNCHANGED dbvars
    \/ \E index \in HintIndexes :
           give_hint_draw(HintThread, index) /\ UNCHANGED dbvars
    \/ \E t \in Threads, game_id \in GameIds \cup {UnknownId} :
           DBGameStore_give_hint_load(t, game_id)
    \/ \E t \in Threads, index \in HintIndexes :
           DBGameStore_give_hint_draw(t, index)

\* randbelow is fair: a loop that can end on some value gets such a value.
HintFairness ==
    /\ WF_vars(\E index \in HintIndexes :
                   give_hint_draw(HintThread, index) /\ UNCHANGED dbvars)
    /\ \A t \in Threads :
           WF_vars(\E index \in HintIndexes : DBGameStore_give_hint_draw(t, index))

SpecHint == Init /\ [][NextHint]_vars /\ HintFairness

\* ------------------------------------------------- GameStore and its lock
\* SpecLock: threads calling the GameStore methods directly. A call waits
\* for the lock, runs its with-block holding it, and leaves the block by a
\* return or by a raise.
\* The guesses of SpecLock: the secret, and a code of another length.
LockGuesses == {<<2, 1>>, <<0, 1, 2>>}

\* A thread calls a method of the store.
store_call(t, op, game_id, attempt) ==
    /\ Ready(t)
    /\ op = "create" => (DOMAIN games = {} /\ \A u \in Threads : th[u].op # "create")
    /\ op \in {"create", "reset_stats"} => game_id = UnknownId
    /\ op # "guess" => attempt = <<>>
    /\ th' = [th EXCEPT ![t] = Frame("waiting", op, game_id, attempt)]
    /\ UNCHANGED <<games, stats, lock, last, outcomeCalls, acceptedCalls>>

\* with self._lock: entered when the lock is free.
with_enter(t) ==
    /\ th[t].pc = "waiting"
    /\ CanAcquire(t)
    /\ lock' = t
    /\ Goto(t, "locked")
    /\ UNCHANGED <<games, stats, last, outcomeCalls, acceptedCalls>>

\* Mutant: a raise leaves the block without releasing the lock.
with_exit_HoldsOnRaise(t, result) ==
    /\ lock' = IF result = "ValueError" THEN lock ELSE NoThread
    /\ th' = [th EXCEPT ![t] = [Frame("done", th[t].op, UnknownId, <<>>)
                                    EXCEPT !.resp = Some(Response(result, <<>>))]]

\* The with-block is left, by return or by raise: the lock is released.
with_exit(t, result) ==
    /\ lock' = NoThread
    /\ th' = [th EXCEPT ![t] = [Frame("done", th[t].op, UnknownId, <<>>)
                                    EXCEPT !.resp = Some(Response(result, <<>>))]]

create_locked(t, secret, attempts, difficulty) ==
    /\ th[t].pc = "locked" /\ th[t].op = "create"
    /\ NewId \in GameIds
    /\ games' = InsertGame(games, NewId, Game(secret, attempts, difficulty))
    /\ stats' = IncDifficultyStarted(IncGamesStarted(stats), difficulty)
    /\ with_exit(t, "game")
    /\ UNCHANGED <<last, outcomeCalls, acceptedCalls>>

get_locked(t) ==
    /\ th[t].pc = "locked" /\ th[t].op = "get"
    /\ with_exit(t, IF th[t].game_id \in DOMAIN games THEN "game" ELSE "None")
    /\ UNCHANGED <<games, stats, last, outcomeCalls, acceptedCalls>>

guess_locked(t) ==
    /\ th[t].pc = "locked" /\ th[t].op = "guess"
    /\ LET game_id == th[t].game_id
           attempt == th[t].payload
           branch == GuessBranch(games, game_id, attempt)
       IN  IF branch = "accepted"
           THEN LET game == GameAfterGuess(games[game_id], attempt)
                    ended == TransitionDetected(games[game_id].status, game)
                IN  /\ games' = [games EXCEPT ![game_id] = game]
                    /\ stats' = IF ended
                                THEN update_stats_on_end(stats, game, game.status = "won")
                                ELSE stats
                    /\ outcomeCalls' = IF ended
                                       THEN [outcomeCalls EXCEPT ![game_id] = @ + 1]
                                       ELSE outcomeCalls
                    /\ acceptedCalls' = [acceptedCalls EXCEPT ![game_id] = @ + 1]
                    /\ with_exit(t, "game")
           ELSE /\ UNCHANGED <<games, stats, outcomeCalls, acceptedCalls>>
                /\ with_exit(t, IF branch = "finished" THEN "game" ELSE branch)
    /\ UNCHANGED last

give_hint_locked(t) ==
    /\ th[t].pc = "locked" /\ th[t].op = "give_hint"
    /\ LET game_id == th[t].game_id
           branch == HintBranch(games, game_id)
       IN  /\ IF branch = "ok"
              THEN \E index \in RandBelow(Len(games[game_id].secret)) :
                       /\ ~AlreadyRevealed(games[game_id], index)
                       /\ games' = [games EXCEPT ![game_id] = MarkHint(@, index)]
              ELSE UNCHANGED games
           /\ with_exit(t, branch)
    /\ UNCHANGED <<stats, last, outcomeCalls, acceptedCalls>>

reset_stats_locked(t) ==
    /\ th[t].pc = "locked" /\ th[t].op = "reset_stats"
    /\ stats' = Stats
    /\ with_exit(t, "None")
    /\ UNCHANGED <<games, last, outcomeCalls, acceptedCalls>>

\* The with-block of thread t, whichever method it belongs to.
with_block(t) ==
    \/ \E args \in CallArgs : create_locked(t, args[1], MaxAttempts, args[2])
    \/ get_locked(t)
    \/ guess_locked(t)
    \/ give_hint_locked(t)
    \/ reset_stats_locked(t)

NextLock ==
    \/ \E t \in Threads,
          op \in {"create", "get", "guess", "give_hint", "reset_stats"},
          game_id \in DOMAIN games \cup {UnknownId},
          attempt \in LockGuesses \cup {<<>>} :
           store_call(t, op, game_id, attempt) /\ UNCHANGED dbvars
    \/ \E t \in Threads : with_enter(t) /\ UNCHANGED dbvars
    \/ \E t \in Threads, args \in CallArgs :
           create_locked(t, args[1], MaxAttempts, args[2]) /\ UNCHANGED dbvars
    \/ \E t \in Threads : get_locked(t) /\ UNCHANGED dbvars
    \/ \E t \in Threads : guess_locked(t) /\ UNCHANGED dbvars
    \/ \E t \in Threads : give_hint_locked(t) /\ UNCHANGED dbvars
    \/ \E t \in Threads : reset_stats_locked(t) /\ UNCHANGED dbvars

\* Fair scheduling: a thread holding the lock keeps running, and a thread
\* that finds the lock free again and again gets it.
LockFairness ==
    \A t \in Threads :
        /\ SF_vars(with_enter(t) /\ UNCHANGED dbvars)
        /\ WF_vars(with_block(t) /\ UNCHANGED dbvars)

SpecLock == Init /\ [][NextLock]_vars /\ LockFairness

\* ------------------------------------------------------------------ claims
InProgress(g) == g \in DOMAIN games /\ games[g].status = "in_progress"
Finished(g) == g \in DOMAIN games /\ games[g].status \in Terminal
\* Some guess of the session's history equals its secret position by position.
HasWinningGuess(game) ==
    \E i \in 1..Len(game.history) : is_win(game.secret, game.history[i].guess)

\* C1: the scoreboard outcome update has run exactly once for every session
\* that is won or lost and not at all for a session in progress, whatever
\* calls were made after the session ended.
C1_OutcomeExactlyOnce ==
    \A g \in DOMAIN games :
        outcomeCalls[g] = IF games[g].status \in Terminal THEN 1 ELSE 0

C1_Witness ==
    \E g1, g2 \in DOMAIN games :
        /\ games[g1].status = "won" /\ outcomeCalls[g1] = 1
        /\ games[g2].status = "lost" /\ outcomeCalls[g2] = 1
        /\ stats.games_won = 1 /\ stats.games_lost = 1

\* C2: once a session is won or lost no call changes its status,
\* attempts_left or history, and a guess on it returns the session without
\* raising, whatever the length of the guess, and leaves the scoreboard alone.
C2_TerminalAbsorbing ==
    [][\A g \in DOMAIN games :
          games[g].status \in Terminal =>
              /\ games'[g].status = games[g].status
              /\ games'[g].attempts_left = games[g].attempts_left
              /\ games'[g].history = games[g].history
              /\ (last'.op = "guess" /\ last'.game_id = g) =>
                     /\ last'.result = "game"
                     /\ stats' = stats
                     /\ outcomeCalls' = outcomeCalls]_vars

C2_Witness ==
    /\ last.op = "guess" /\ last.result = "game"
    /\ Finished(last.game_id)
    /\ Len(last.attempt) # Len(games[last.game_id].secret)

\* C3: the history of every session has as many entries as attempts were
\* consumed: len(history) = initial_attempts - attempts_left.
C3_HistoryCountsAttempts ==
    \A g \in DOMAIN games :
        Len(games[g].history) = games[g].initial_attempts - games[g].attempts_left

C3_Witness ==
    \E g \in DOMAIN games :
        /\ Len(games[g].history) = 2 /\ games[g].attempts_left = 0
        /\ games[g].hint_used

C5_OutcomeAfterGuesses ==
    \A g \in DOMAIN games :
        LET game == games[g]
            N == game.initial_attempts
        IN  /\ (Len(game.history) = N /\ ~HasWinningGuess(game)) =>
                   (game.status = "lost" /\ game.attempts_left = 0)
            /\ \A k \in 1..Len(game.history) :
                   is_win(game.secret, game.history[k].guess) =>
                       /\ game.status = "won"
                       /\ game.attempts_left = N - k
                       /\ Len(game.history) = k

C5_Witness ==
    \E g1, g2 \in DOMAIN games :
        /\ games[g1].status = "lost" /\ Len(games[g1].history) = games[g1].initial_attempts
        /\ games[g2].status = "won" /\ Len(games[g2].history) = games[g2].initial_attempts
        /\ games[g2].initial_attempts = 2

\* C6: a guess whose length differs from the secret's, made on a session in
\* progress, is rejected (ValueError from the store, 400 from the route) and
\* leaves every session and every scoreboard counter as they were.
C6_RejectedGuessChangesNothing ==
    [][\A g \in DOMAIN games :
          (/\ games[g].status = "in_progress"
           /\ last'.op \in {"guess", "submit_guess"}
           /\ last'.game_id = g
           /\ Len(last'.attempt) # Len(games[g].secret)) =>
              /\ last'.result = IF last'.op = "guess" THEN "ValueError" ELSE "400"
              /\ games' = games
              /\ stats' = stats
              /\ outcomeCalls' = outcomeCalls]_vars

C6_Witness ==
    /\ last.op = "guess" /\ last.result = "ValueError"
    /\ InProgress(last.game_id)
    /\ Len(last.attempt) # Len(games[last.game_id].secret)
    /\ Len(games[last.game_id].history) = 1
    /\ games[last.game_id].hint_used

\* Thread t is inside store.guess with the lock, past the guards.
InGuess(t) ==
    th[t].pc \in {"guess_append", "guess_decrement", "guess_status", "guess_stats"}

\* Thread t is inside one of the store's critical sections.
InLock(t) == InGuess(t) \/ th[t].pc \in {"create_started", "create_difficulty"}

\* The body of a completed response of thread t to a request op, if any.
Bodies(t, op) ==
    {r.body : r \in {x \in th[t].resp : th[t].pc = "done" /\ th[t].op = op
                                        /\ x.code = "200"}}

\* C7: guess calls made concurrently on one session run one at a time, each on
\* the state the previous one left: between guesses the history has one entry
\* per accepted call, in the order they ran, attempts_left has dropped by the
\* same number and is not negative, and the outcome update has run once for
\* a finished session and not at all otherwise.
C7_GuessesSerialized ==
    /\ \A t, u \in Threads : (InLock(t) /\ InLock(u)) => t = u
    /\ \A t \in Threads : InLock(t) => lock = t
    /\ \A g \in DOMAIN games :
           (\A t \in Threads : ~(InGuess(t) /\ th[t].game_id = g)) =>
               LET game == games[g]
               IN  /\ Len(game.history) = acceptedCalls[g]
                   /\ game.initial_attempts - game.attempts_left = acceptedCalls[g]
                   /\ game.attempts_left >= 0
                   /\ outcomeCalls[g] = IF game.status \in Terminal THEN 1 ELSE 0
                   /\ \A i, j \in 1..Len(game.history) :
                          i < j => game.history[i].timestamp < game.history[j].timestamp
    /\ lock = NoThread =>
           stats.games_won + stats.games_lost =
               Cardinality({g \in DOMAIN games : games[g].status \in Terminal})

\* A second accepted guess holds the lock with its writes made while another
\* thread's guess on the same session waits at the lock.
C7_Witness ==
    \E t, u \in Threads :
        /\ t # u /\ lock = t
        /\ th[t].pc = "guess_stats" /\ th[u].pc = "guess_call"
        /\ th[t].game_id = th[u].game_id
        /\ acceptedCalls[th[t].game_id] = 2

\* C8: a get_game response produced while a guess runs on the same session
\* is a state the session had before or after that guess: its history has
\* initial_attempts - attempts_left entries and its status is the one that
\* history and attempts_left give.
C8_ReadSeesConsistentSnapshot ==
    \A t \in Threads : \A body \in Bodies(t, "get_game") :
        LET game == games[body.game_id]
            won == \E i \in 1..Len(body.history) :
                       is_win(game.secret, body.history[i].guess)
        IN  /\ Len(body.history) = game.initial_attempts - body.attempts_left
            /\ body.status = "won" <=> won
            /\ body.status = "lost" <=> (body.attempts_left = 0 /\ ~won)

\* C9: a response that reports a session as won finds that win counted in
\* games_won, and one that reports it as lost finds that loss counted in
\* games_lost: the terminal status is never observable without its scoreboard
\* update (no reset_stats is made).
C9_TerminalStatusSeenWithOutcome ==
    \A t \in Threads :
        \A body \in Bodies(t, "get_game") \cup Bodies(t, "submit_guess") :
            /\ body.status = "won" =>
                   stats.games_won =
                       Cardinality({g \in DOMAIN games : games[g].status = "won"})
            /\ body.status = "lost" =>
                   stats.games_lost =
                       Cardinality({g \in DOMAIN games : games[g].status = "lost"})

\* C10: no response carries the secret of a session in progress, and a
\* submit_guess response carries the secret exactly when the status it
\* reports is won or lost.
C10_SecretOnlyWithTerminalStatus ==
    \A t \in Threads :
        /\ \A body \in Bodies(t, "submit_guess") :
               /\ body.secret # None <=> body.status \in Terminal
               /\ body.secret # None => games[th[t].game_id].status \in Terminal
        /\ \A body \in Bodies(t, "get_game") \cup Bodies(t, "start_game")
                           \cup Bodies(t, "get_stats") :
               "secret" \notin DOMAIN body

\* C11: the history is append-only. A guess of the secret's length on a
\* session in progress appends exactly one entry at the end, holding the guess
\* and the (correct_numbers, correct_positions) score_guess gives for it, and
\* takes exactly 1 from attempts_left; no other step changes the history.
C11_HistoryAppendOnly ==
    [][\A g \in DOMAIN games :
          LET old == games[g]
              new == games'[g]
              accepted == /\ last'.op \in {"guess", "submit_guess"}
                          /\ last'.game_id = g
                          /\ old.status = "in_progress"
                          /\ Len(last'.attempt) = Len(old.secret)
          IN  IF accepted
              THEN /\ Len(new.history) = Len(old.history) + 1
                   /\ SubSeq(new.history, 1, Len(old.history)) = old.history
                   /\ LET entry == new.history[Len(new.history)]
                      IN  /\ entry.guess = last'.attempt
                          /\ <<entry.correct_numbers, entry.correct_positions>> =
                                 score_guess(old.secret, last'.attempt)
                   /\ new.attempts_left = old.attempts_left - 1
              ELSE new.history = old.history]_vars

\* A second entry has been appended behind a different first one.
C11_Witness ==
    /\ last.op = "guess" /\ last.game_id \in DOMAIN games
    /\ LET history == games[last.game_id].history
       IN  /\ Len(history) = 2
           /\ history[2].guess = last.attempt
           /\ history[1].guess # history[2].guess

\* C12: in every reachable state every session has
\* 0 <= attempts_left <= attempts_total, whatever non-negative attempts value
\* create was given and whatever guesses were made.
C12_AttemptsLeftInRange ==
    \A g \in DOMAIN games :
        /\ 0 <= games[g].attempts_left
        /\ games[g].attempts_left <= games[g].initial_attempts

\* C13: create adds the session and increments games_started and one
\* per-difficulty started counter as one atomic step: no scoreboard read
\* returns games_started incremented without the per-difficulty counter, so
\* every get_stats response has games_started equal to the sum of
\* easy_started, medium_started and hard_started.
C13_CreateObservedAtomically ==
    \A t \in Threads : \A body \in Bodies(t, "get_stats") :
        body.games_started =
            body.easy_started + body.medium_started + body.hard_started

\* C14: the step that makes a session won adds 1 to games_won, to the won
\* counter of its difficulty and to current_streak, raises best_streak to the
\* new current_streak if that is larger, adds guesses_used = attempts_total -
\* attempts_left (the history length) to total_guesses_in_wins and sets
\* fastest_win_attempts to guesses_used if it was unset or larger; the step
\* that makes it lost adds 1 to games_lost and sets current_streak to 0; no
\* other counter changes in either.
C14_ScoreboardOnOutcome ==
    [][\A g \in DOMAIN games :
          LET old == games[g]
              new == games'[g]
              guesses_used == new.initial_attempts - new.attempts_left
              streak == stats.current_streak + 1
              WonBy(d) == IF new.difficulty = d THEN 1 ELSE 0
          IN  /\ (old.status = "in_progress" /\ new.status = "won") =>
                     /\ guesses_used = Len(new.history)
                     /\ stats'.games_won = stats.games_won + 1
                     /\ stats'.easy_won = stats.easy_won + WonBy("easy")
                     /\ stats'.medium_won = stats.medium_won + WonBy("medium")
                     /\ stats'.hard_won = stats.hard_won + WonBy("hard")
                     /\ stats'.current_streak = streak
                     /\ stats'.best_streak =
                            IF stats.best_streak >= streak THEN stats.best_streak ELSE streak
                     /\ stats'.total_guesses_in_wins =
                            stats.total_guesses_in_wins + guesses_used
                     /\ stats'.fastest_win_attempts =
                            IF \E f \in stats.fastest_win_attempts : f <= guesses_used
                            THEN stats.fastest_win_attempts ELSE {guesses_used}
                     /\ stats'.games_lost = stats.games_lost
                     /\ stats'.games_started = stats.games_started
                     /\ stats'.easy_started = stats.easy_started
                     /\ stats'.medium_started = stats.medium_started
                     /\ stats'.hard_started = stats.hard_started
              /\ (old.status = "in_progress" /\ new.status = "lost") =>
                     stats' = [stats EXCEPT !.games_lost = @ + 1, !.current_streak = 0]]_vars

\* Two wins, the first in two guesses and the second in one: the streak and
\* its best are 2, three guesses are counted and the fastest win is 1.
C14_Witness ==
    /\ stats.games_won = 2 /\ stats.current_streak = 2 /\ stats.best_streak = 2
    /\ stats.total_guesses_in_wins = 3
    /\ stats.fastest_win_attempts = {1}
    /\ \E g \in DOMAIN games : games[g].status = "won" /\ Len(games[g].history) = 2

\* C15: reset_stats sets every scoreboard counter to 0 and
\* fastest_win_attempts to unset, and changes no session.
C15_ResetClearsScoreboardOnly ==
    [][last'.op = "reset_stats" =>
          /\ stats'.games_started = 0 /\ stats'.games_won = 0
          /\ stats'.games_lost = 0
          /\ stats'.current_streak = 0 /\ stats'.best_streak = 0
          /\ stats'.total_guesses_in_wins = 0
          /\ stats'.easy_started = 0 /\ stats'.medium_started = 0
          /\ stats'.hard_started = 0
          /\ stats'.easy_won = 0 /\ stats'.medium_won = 0 /\ stats'.hard_won = 0
          /\ stats'.fastest_win_attempts = None
          /\ games' = games]_vars

\* The scoreboard has just been reset after a session was won with its hint
\* used: the counters are 0 and the session is as it was.
C15_Witness ==
    /\ last.op = "reset_stats"
    /\ stats.games_started = 0 /\ stats.games_won = 0 /\ stats.best_streak = 0
    /\ \E g \in DOMAIN games :
           games[g].status = "won" /\ games[g].hint_used /\ Len(games[g].history) = 2

\* C16: give_hint answers not_found for an unknown id; otherwise finished for
\* a won or lost session, whether or not its hint was used; otherwise
\* already_used if the hint flag is set or every position is revealed;
\* otherwise ok. A call answers ok only on a session whose hint flag was unset
\* and sets it, and the flag is never unset: at most one call per session
\* succeeds.
C16_HintOutcomes ==
    [][/\ last'.op = "give_hint" =>
              LET g == last'.game_id
              IN  last'.result =
                      IF g \notin DOMAIN games THEN "not_found"
                      ELSE IF games[g].status \in Terminal THEN "finished"
                      ELSE IF \/ games[g].hint_used
                              \/ Len(games[g].revealed_positions) >= Len(games[g].secret)
                           THEN "already_used"
                      ELSE "ok"
       /\ (last'.op = "give_hint" /\ last'.result = "ok") =>
              /\ ~games[last'.game_id].hint_used
              /\ games'[last'.game_id].hint_used
       /\ \A g \in DOMAIN games : games[g].hint_used => games'[g].hint_used]_vars

\* A hint asked on a finished session whose hint had been used: finished.
C16_Witness ==
    /\ last.op = "give_hint" /\ last.result = "finished"
    /\ last.game_id \in DOMAIN games
    /\ games[last.game_id].hint_used

\* C17: a successful give_hint changes only hint_used, revealed_positions and
\* updated_at of its session: the session's other fields, every other
\* session and every scoreboard counter stay as they were.
C17_HintChangesHintFieldsOnly ==
    [][(last'.op = "give_hint" /\ last'.result = "ok") =>
          LET g == last'.game_id
          IN  /\ DOMAIN games' = DOMAIN games
              /\ [games'[g] EXCEPT !.hint_used = games[g].hint_used,
                                   !.revealed_positions = games[g].revealed_positions,
                                   !.updated_at = games[g].updated_at] = games[g]
              /\ \A h \in DOMAIN games \ {g} : games'[h] = games[h]
              /\ stats' = stats]_vars

\* A hint has just succeeded on a session with one guess made, beside a
\* finished session.
C17_Witness ==
    /\ last.op = "give_hint" /\ last.result = "ok"
    /\ Len(games[last.game_id].history) = 1
    /\ games[last.game_id].attempts_left = 1
    /\ \E h \in DOMAIN games \ {last.game_id} : games[h].status \in Terminal

\* C18: a successful give_hint returns (position, digit) with
\* 0 <= position < len(secret), digit = secret[position] and position not
\* revealed before, and appends position to revealed_positions. In every
\* state revealed_positions has no duplicates, lies within the secret's
\* indices, has at most one element, only grows, and is non-empty exactly
\* when hint_used is set.
C18_HintRevealsOnePosition ==
    [][/\ (last'.op = "give_hint" /\ last'.result = "ok") =>
              LET g == last'.game_id
                  position == last'.data[1]
                  digit == last'.data[2]
              IN  /\ position \in 0..(Len(games[g].secret) - 1)
                  /\ digit = games[g].secret[position + 1]
                  /\ \A j \in 1..Len(games[g].revealed_positions) :
                         games[g].revealed_positions[j] # position
                  /\ games'[g].revealed_positions =
                         Append(games[g].revealed_positions, position)
       /\ \A g \in DOMAIN games :
              SubSeq(games'[g].revealed_positions, 1, Len(games[g].revealed_positions))
                  = games[g].revealed_positions
       /\ \A g \in DOMAIN games' :
              LET revealed == games'[g].revealed_positions
              IN  /\ \A i, j \in 1..Len(revealed) : revealed[i] = revealed[j] => i = j
                  /\ \A i \in 1..Len(revealed) :
                         revealed[i] \in 0..(Len(games'[g].secret) - 1)
                  /\ Len(revealed) <= 1
                  /\ Len(revealed) > 0 <=> games'[g].hint_used]_vars

\* The hint has revealed the second position: index 1 and the digit there.
C18_Witness ==
    /\ last.op = "give_hint" /\ last.result = "ok"
    /\ last.data[1] = 1
    /\ last.data[2] = games[last.game_id].secret[2]
    /\ games[last.game_id].revealed_positions = <<1>>

\* C19: a call that ends in an expected error or not-found result changes
\* nothing. get, guess, give_hint and submit_guess on an unknown id answer
\* None, not_found and 404, and these calls, like a give_hint answering
\* finished or already_used, leave all sessions and all scoreboard counters
\* identical.
C19_ErrorsChangeNothing ==
    [][/\ (last'.op \in {"get", "guess", "give_hint", "submit_guess"}
           /\ last'.game_id \notin DOMAIN games) =>
              last'.result = IF last'.op = "give_hint" THEN "not_found"
                             ELSE IF last'.op = "submit_guess" THEN "404"
                             ELSE "None"
       /\ (\/ last'.op \in {"get", "guess"} /\ last'.result = "None"
           \/ last'.op = "submit_guess" /\ last'.result = "404"
           \/ last'.op = "give_hint"
                  /\ last'.result \in {"not_found", "finished", "already_used"}) =>
              /\ games' = games
              /\ stats' = stats
              /\ outcomeCalls' = outcomeCalls]_vars

\* A second hint has just been refused on a session in progress.
C19_Witness ==
    /\ last.op = "give_hint" /\ last.result = "already_used"
    /\ InProgress(last.game_id)
    /\ Len(games[last.game_id].history) = 1
    /\ stats.games_started = 2

\* The number of copies of digit v in code.
CountOf(v, code) == Cardinality({i \in 1..Len(code) : code[i] = v})

\* The sum over the digit values 0..7 of the smaller of the two counts,
\* counted as the pairs (v, k) with at least k copies of v in both codes.
SumOfMinCounts(secret, attempt) ==
    Cardinality({p \in (0..7) \X (1..Len(secret)) :
                     CountOf(p[1], secret) >= p[2] /\ CountOf(p[1], attempt) >= p[2]})

DigitsInRange(code) == \A i \in 1..Len(code) : code[i] \in 0..7

\* C20: for secret and guess of equal positive length with digits in 0..7,
\* score_guess returns (correct_numbers, correct_positions) with
\* correct_positions the number of positions where they agree and
\* correct_numbers the sum over the digit values of the smaller count; the
\* result is the same with secret and guess swapped; the three examples give
\* (1,1), (4,2) and (0,0).
C20_ScoreGuessCounts ==
    (/\ last.op = "engine" /\ last.scored
     /\ Len(last.secret) > 0 /\ Len(last.secret) = Len(last.guess)
     /\ DigitsInRange(last.secret) /\ DigitsInRange(last.guess)) =>
        /\ ~last.raised
        /\ last.result[2] =
               Cardinality({i \in 1..Len(last.secret) : last.secret[i] = last.guess[i]})
        /\ last.result[1] = SumOfMinCounts(last.secret, last.guess)
        /\ last.result = score_guess(last.guess, last.secret)
        /\ (last.secret = <<0, 1, 3, 5>> /\ last.guess = <<0, 2, 4, 6>>) =>
               last.result = <<1, 1>>
        /\ (last.secret = <<2, 2, 5, 5>> /\ last.guess = <<2, 5, 2, 5>>) =>
               last.result = <<4, 2>>
        /\ (last.secret = <<0, 1, 2, 3>> /\ last.guess = <<4, 5, 6, 7>>) =>
               last.result = <<0, 0>>

\* The example with duplicates has been scored.
C20_Witness ==
    /\ last.op = "engine" /\ last.scored /\ ~last.raised
    /\ last.secret = <<2, 2, 5, 5>> /\ last.guess = <<2, 5, 2, 5>>
    /\ last.result = <<4, 2>>

\* C21: for secret and guess of equal positive length with digits in 0..7,
\* correct_positions <= correct_numbers <= length; with digits outside 0..7,
\* which the counts ignore and the positional comparison does not, both
\* numbers are still at most length.
C21_ScoreBounds ==
    (/\ last.op = "engine" /\ last.scored
     /\ Len(last.secret) > 0 /\ Len(last.secret) = Len(last.guess)) =>
        /\ ~last.raised
        /\ 0 <= last.result[1] /\ last.result[1] <= Len(last.secret)
        /\ 0 <= last.result[2] /\ last.result[2] <= Len(last.secret)
        /\ (DigitsInRange(last.secret) /\ DigitsInRange(last.guess)) =>
               last.result[2] <= last.result[1]

\* A score with correct_positions < correct_numbers < length.
C21_Witness ==
    /\ last.op = "engine" /\ last.scored /\ ~last.raised
    /\ last.secret = <<0, 1, 7>> /\ last.guess = <<0, 7, 0>>
    /\ last.result = <<2, 1>>

\* C21 as stated: for every secret and guess of equal positive length the
\* engine accepts, correct_positions <= correct_numbers <= length.
C21_ScoreBoundsAnyDigits ==
    (/\ last.op = "engine" /\ last.scored
     /\ Len(last.secret) > 0 /\ Len(last.secret) = Len(last.guess)) =>
        /\ ~last.raised
        /\ last.result[2] <= last.result[1]
        /\ last.result[1] <= Len(last.secret)

\* C22: for a secret of positive length with digits in 0..7,
\* score_guess(secret, secret) returns (length, length).
C22_SelfScore ==
    (/\ last.op = "engine" /\ last.scored
     /\ Len(last.secret) > 0 /\ last.guess = last.secret
     /\ DigitsInRange(last.secret)) =>
        /\ ~last.raised
        /\ last.result = <<Len(last.secret), Len(last.secret)>>

\* A secret with repeated digits scored against itself.
C22_Witness ==
    /\ last.op = "engine" /\ last.scored /\ ~last.raised
    /\ last.secret = <<2, 2, 5, 5>> /\ last.guess = <<2, 2, 5, 5>>
    /\ last.result = <<4, 4>>

\* C22 as stated: for any secret of positive length, whatever its digits,
\* score_guess(secret, secret) returns (length, length).
C22_SelfScoreAnyDigits ==
    (/\ last.op = "engine" /\ last.scored
     /\ Len(last.secret) > 0 /\ last.guess = last.secret) =>
        /\ ~last.raised
        /\ last.result = <<Len(last.secret), Len(last.secret)>>

\* C23: is_win(secret, guess) is true exactly when the lengths are equal and
\* positive and every position matches; for equal positive lengths that is
\* exactly when the correct_positions of score_guess equals the length.
C23_WinIffAllPositions ==
    (last.op = "engine" /\ last.tested) =>
        /\ last.win <=>
               (/\ Len(last.secret) = Len(last.guess)
                /\ Len(last.secret) > 0
                /\ \A i \in 1..Len(last.secret) : last.secret[i] = last.guess[i])
        /\ (/\ last.scored
            /\ Len(last.secret) > 0 /\ Len(last.secret) = Len(last.guess)) =>
               /\ ~last.raised
               /\ last.win <=> last.result[2] = Len(last.secret)

\* Both functions have run on a winning pair and agree.
C23_Witness ==
    /\ last.op = "engine" /\ last.tested /\ last.scored
    /\ last.secret = <<0, 1, 7>> /\ last.guess = <<0, 1, 7>>
    /\ last.win /\ last.result[2] = 3

\* C24: score_guess raises ValueError, and returns no counts, whenever the
\* secret is empty or the guess differs in length from the secret; is_win
\* returns false for the same inputs.
C24_BadLengthsRejected ==
    (/\ last.op = "engine"
     /\ (Len(last.secret) = 0 \/ Len(last.guess) # Len(last.secret))) =>
        /\ last.scored => (last.raised /\ last.result = <<>>)
        /\ last.tested => ~last.win

\* A guess one digit longer than the secret and equal to it on the secret's
\* length: score_guess has raised and is_win has returned false.
C24_Witness ==
    /\ last.op = "engine" /\ last.scored /\ last.tested
    /\ last.secret = <<0, 1>> /\ last.guess = <<0, 1, 7>>
    /\ last.raised /\ ~last.win

\* The sessions of difficulty d.
SessionsOf(d) == {g \in DOMAIN games : games[g].difficulty = d}

\* C25: start_game answers 200 for every difficulty string and creates an
\* in-progress session with attempts_left = attempts_total and with secret
\* length 3 and 8 attempts for easy, length 5 and 12 attempts for hard, and
\* difficulty medium, length 4 and 10 attempts for every other string; each
\* creation is counted in the started counter of the session's difficulty.
C25_DifficultyPresets ==
    /\ last.op = "start_game" =>
           LET input == last.data[1]
               response == last.data[2]
               game == games[last.game_id]
               expected == IF input = "easy" THEN <<"easy", 3, 8>>
                           ELSE IF input = "hard" THEN <<"hard", 5, 12>>
                           ELSE <<"medium", 4, 10>>
           IN  /\ last.result = "200"
               /\ game.difficulty = expected[1]
               /\ Len(game.secret) = expected[2]
               /\ game.initial_attempts = expected[3]
               /\ game.attempts_left = expected[3]
               /\ game.status = "in_progress"
               /\ response = NewGameResponse(last.game_id, expected[3],
                                             "in_progress", expected[1])
    /\ (last.op = "start_game" \/ last = NoCall) =>
           /\ stats.easy_started = Cardinality(SessionsOf("easy"))
           /\ stats.medium_started = Cardinality(SessionsOf("medium"))
           /\ stats.hard_started = Cardinality(SessionsOf("hard"))
           /\ stats.games_started = Cardinality(DOMAIN games)

\* An unrecognized difficulty has just given a medium session, after a hard
\* one.
C25_Witness ==
    /\ last.op = "start_game" /\ last.data[1] = "bogus"
    /\ games[last.game_id].difficulty = "medium"
    /\ Len(games[last.game_id].secret) = 4
    /\ games[last.game_id].attempts_left = 10
    /\ stats.medium_started = 1 /\ stats.hard_started = 1

\* C27: for a length of 3, 4 or 5 and whatever the remote service does,
\* fetch_code returns without raising, and what it returns is exactly
\* `length` integers, each in 0..7.
C27_FetchCodeValid ==
    last.op = "fetch_code" =>
        /\ fetch_code(last.length, last.remote) # {}
        /\ \A code \in last.returned :
               /\ Len(code) = last.length
               /\ \A i \in 1..Len(code) : code[i] \in 0..MaxDigit

\* C26: no step removes a session from the store or changes its id, secret,
\* difficulty or attempts_total; a session once created stays retrievable
\* under the same id with these four values.
C26_SessionIdentityFrozen ==
    [][\A g \in DOMAIN games :
          /\ g \in DOMAIN games'
          /\ games'[g].secret = games[g].secret
          /\ games'[g].difficulty = games[g].difficulty
          /\ games'[g].initial_attempts = games[g].initial_attempts]_vars

\* A session that took a hint and two guesses and was lost, with a second
\* session created and won and the scoreboard reset since.
C26_Witness ==
    /\ \E g \in DOMAIN games :
           /\ games[g].status = "lost" /\ games[g].hint_used
           /\ Len(games[g].history) = 2 /\ games[g].initial_attempts = 2
    /\ \E g \in DOMAIN games : games[g].status = "won"
    /\ stats.games_started = 0

\* C28: concurrent DBGameStore.guess calls on one session are applied one
\* at a time: in every committed state attempts_left is attempts_total less
\* the number of the session's guess rows (no decrement and no history entry
\* is lost), and the scoreboard counts one won or lost outcome for each
\* finished session, never two.
C28_DBGuessesSerialised ==
    /\ \A g \in DOMAIN db.games :
           db.games[g].attempts_left =
               db.games[g].initial_attempts - Len(HistoryRows(db, g))
    /\ StatsRowOf(db).games_won + StatsRowOf(db).games_lost =
           Cardinality({g \in DOMAIN db.games : db.games[g].status \in Terminal})

\* C29: DBGameStore.create commits the new games row together with the
\* increments of games_started and of the difficulty's started counter: in
\* every committed state the started counters count the rows of the games
\* table, also when the first create finds no stats row.
C29_SessionCommittedWithItsCount ==
    /\ StatsRowOf(db).games_started = Cardinality(DOMAIN db.games)
    /\ \A d \in Difficulties :
           StatsRowOf(db)[StartedCounter(d)] =
               Cardinality({g \in DOMAIN db.games : db.games[g].difficulty = d})

\* What a guess row and a GuessEntry have in common.
Feedback(entry) ==
    <<entry.guess, entry.correct_numbers, entry.correct_positions, entry.message>>

C31_HistoryInAcceptanceOrder ==
    (dbLast.op \in {"get", "guess"} /\ dbLast.result = "game") =>
        dbLast.data = HistoryRows(db, dbLast.game_id)

\* C32: a submit_guess request that passed the route's status and length
\* checks answers with the history entry of its own guess as the feedback,
\* and with the attempts_left and status the session had immediately after
\* that guess was applied, whatever other requests run in between.
C32_ResponseOfOwnGuess ==
    \A t \in Threads :
        (th[t].op = "submit_guess" /\ th[t].pc = "done" /\ th[t].feedback # None) =>
            \A resp \in th[t].resp :
                LET game == games[th[t].game_id]
                    after(i) == game.initial_attempts - i
                IN  \E i \in 1..Len(game.history) :
                        /\ game.history[i].guess = th[t].payload
                        /\ resp.body.feedback = Some(game.history[i])
                        /\ resp.body.attempts_left = after(i)
                        /\ resp.body.status =
                               IF is_win(game.secret, th[t].payload) THEN "won"
                               ELSE IF after(i) <= 0 THEN "lost"
                               ELSE "in_progress"

\* A give_hint call of thread t is in its index-selection loop.
InHintLoop(t) == th[t].pc = "hint_loop"

InDBHintLoop(t) == orm[t].pc = "hint_loop"

\* The object the DBGameStore.give_hint call of request t has loaded.
LoadedGame(t) == CHOOSE row \in orm[t].loaded : TRUE

\* C33: whenever give_hint is in its index-selection loop some index in
\* [0, len(secret)) is not yet revealed (so the loop is never entered with
\* every position revealed), and under a fair randbelow the loop ends and
\* the call returns an index of that range that was not revealed before.
C33_HintLoopTerminates ==
    /\ [](\A t \in Threads :
              /\ InHintLoop(t) =>
                     \E index \in RandBelow(Len(games[th[t].game_id].secret)) :
                         ~AlreadyRevealed(games[th[t].game_id], index)
              /\ InDBHintLoop(t) =>
                     \E index \in RandBelow(Len(LoadedGame(t).secret)) :
                         ~AlreadyRevealed(LoadedGame(t), index))
    /\ \A t \in Threads :
           /\ InHintLoop(t) ~>
                  (/\ th[t].pc = "done"
                   /\ \E resp \in th[t].resp :
                          /\ resp.code = "ok"
                          /\ resp.body[1] \in RandBelow(Len(games[th[t].game_id].secret))
                          /\ games[th[t].game_id].revealed_positions = <<resp.body[1]>>)
           /\ InDBHintLoop(t) ~>
                  (/\ orm[t].pc = "closed" /\ orm[t].result = "ok"
                   /\ dbLast.op = "give_hint" /\ dbLast.result = "ok"
                   /\ dbLast.game_id = orm[t].game_id
                   /\ dbLast.data[1] \in RandBelow(Len(db.games[orm[t].game_id].secret))
                   /\ db.games[orm[t].game_id].revealed_positions = <<dbLast.data[1]>>)

\* A GameStore call and two DBGameStore requests are in their loops together.
C33_Witness == InHintLoop("t1") /\ InDBHintLoop("t1") /\ InDBHintLoop("t2")

\* A call of thread t is pending: made and not yet returned or raised.
Pending(t) == th[t].pc \in {"waiting", "locked"}

\* C34: every GameStore operation releases the lock when it returns or
\* raises (the ValueError of guess included): the lock is held only by a
\* thread inside its with-block. Under fair scheduling every pending create,
\* get, guess, give_hint or reset_stats call gets the lock and completes,
\* and in no reachable state is a pending call unable to make a step.
C34_LockReleasedAndCallsComplete ==
    /\ [](\A t \in Threads : (lock = t) <=> (th[t].pc = "locked"))
    /\ []((\E t \in Threads : Pending(t)) =>
              \E t \in Threads : ENABLED (with_enter(t) \/ with_block(t)))
    /\ \A t \in Threads : Pending(t) ~> (th[t].pc = "done")

\* A guess has just raised ValueError while the other thread was waiting
\* for the lock.
C34_Witness ==
    /\ \E resp \in th["t1"].resp : resp.code = "ValueError"
    /\ th["t1"].pc = "done" /\ th["t1"].op = "guess"
    /\ th["t2"].pc = "waiting" /\ lock = NoThread

\* Some session goes from in_progress to the given status in this step.
Reaches(status) ==
    \E g \in DOMAIN games :
        games[g].status = "in_progress" /\ games'[g].status = status

StreakBounds(st) ==
    0 <= st.current_streak /\ st.current_streak <= st.best_streak
        /\ st.best_streak <= st.games_won

\* C35: current_streak counts the wins recorded since the latest recorded
\* loss or reset, in the order in which the sessions end: a win adds 1 to it,
\* a loss or a reset sets it to 0 and nothing else changes it; best_streak is
\* the largest value current_streak has had since the last reset: a win
\* raises it to the new current_streak if that is larger, a reset sets it to
\* 0 and nothing else changes it. So 0 <= current_streak <= best_streak <=
\* games_won in every reachable state.
C35_StreaksFollowOutcomes ==
    [][/\ StreakBounds(stats) /\ StreakBounds(stats')
       /\ IF Reaches("won")
          THEN /\ stats'.current_streak = stats.current_streak + 1
               /\ stats'.best_streak =
                      IF stats'.current_streak > stats.best_streak
                      THEN stats'.current_streak ELSE stats.best_streak
          ELSE IF Reaches("lost")
          THEN /\ stats'.current_streak = 0
               /\ stats'.best_streak = stats.best_streak
          ELSE \/ /\ stats'.current_streak = stats.current_streak
                  /\ stats'.best_streak = stats.best_streak
               \/ stats' = Stats /\ games' = games]_vars

\* The session created second was won first and the session created first
\* was lost after it: the streak is 0 and its best is 1.
C35_Witness ==
    /\ DOMAIN games = {"id1", "id2"}
    /\ games["id1"].status = "lost" /\ games["id2"].status = "won"
    /\ stats.current_streak = 0 /\ stats.best_streak = 1
    /\ stats.games_won = 1 /\ stats.games_lost = 1

\* Session h was created after session g (uuid4 ids, taken in this order).
CreatedAfter(h, g) == g = "id1" /\ h = "id2"

\* The sessions created since the last reset: the games_started latest ones.
CreatedSinceReset ==
    {g \in DOMAIN games :
        Cardinality({h \in DOMAIN games : CreatedAfter(h, g)}) < stats.games_started}

\* C36: when reset_stats is called only while no session is in progress,
\* games_won + games_lost is the number of won or lost sessions among those
\* created since the last reset, and it is at most games_started.
C36_OutcomesOfSessionsSinceReset ==
    /\ stats.games_won + stats.games_lost =
           Cardinality({g \in CreatedSinceReset : games[g].status \in Terminal})
    /\ stats.games_won + stats.games_lost <= stats.games_started

\* After a reset that found one finished session, a second session was
\* created and lost: one session started, one lost.
C36_Witness ==
    /\ DOMAIN games = {"id1", "id2"}
    /\ games["id1"].status = "won" /\ games["id2"].status = "lost"
    /\ stats.games_started = 1 /\ stats.games_lost = 1 /\ stats.games_won = 0

\* C37: between operations, also after reset_stats and for sessions created
\* before a reset, the started counters of the three difficulties add up to
\* games_started and the won counters to games_won; fastest_win_attempts is
\* unset exactly when games_won is 0, and otherwise lies between 1 and
\* total_guesses_in_wins.
C37_ScoreboardSums ==
    /\ stats.easy_started + stats.medium_started + stats.hard_started
           = stats.games_started
    /\ stats.easy_won + stats.medium_won + stats.hard_won = stats.games_won
    /\ (stats.fastest_win_attempts = None) <=> (stats.games_won = 0)
    /\ \A fastest \in stats.fastest_win_attempts :
           1 <= fastest /\ fastest <= stats.total_guesses_in_wins

\* A hard session created before a reset was won in two guesses after it:
\* nothing started, one hard win, fastest win 2.
C37_Witness ==
    /\ stats.games_started = 0 /\ stats.games_won = 1 /\ stats.hard_won = 1
    /\ stats.fastest_win_attempts = Some(2) /\ stats.total_guesses_in_wins = 2
    /\ \E g \in DOMAIN games : games[g].difficulty = "hard" /\ games[g].status = "won"

\* C38: a won or lost session has a non-empty history whose last entry is
\* the guess that ended it. Won: the last guess equals the secret with
\* correct_positions = len(secret) and no earlier guess equals the secret.
\* Lost: no guess of the history equals the secret. So submit_guess never
\* answers 500 "no feedback recorded".
C38_TerminalHistoryEndsWithCause ==
    /\ \A g \in DOMAIN games :
           LET game == games[g]
               n == Len(game.history)
           IN  /\ game.status \in Terminal => n > 0
               /\ game.status = "won" =>
                      /\ game.history[n].guess = game.secret
                      /\ game.history[n].correct_positions = Len(game.secret)
                      /\ \A i \in 1..(n - 1) : game.history[i].guess # game.secret
               /\ game.status = "lost" =>
                      \A i \in 1..n : game.history[i].guess # game.secret
    /\ last.op = "submit_guess" => last.result # "500"

\* submit_guess has just answered for the guess that won a session on its
\* second attempt, while another session is lost.
C38_Witness ==
    /\ last.op = "submit_guess" /\ last.result = "200"
    /\ last.game_id \in DOMAIN games
    /\ games[last.game_id].status = "won"
    /\ Len(games[last.game_id].history) = 2
    /\ games[last.game_id].history[2].guess = last.attempt
    /\ \E g \in DOMAIN games : games[g].status = "lost"

====
